---------------------------- MODULE Spec2Model ----------------------------
(***************************************************************************)
(* Model of the Pourbaix-diagram stability engine of                       *)
(* src/pymatgen/analysis/pourbaix_diagram.py: PourbaixEntry, the           *)
(* construction of a PourbaixDiagram (get_pourbaix_domains) and its        *)
(* queries.                                                                *)
(*                                                                         *)
(* Numbers.  The code works in floating point eV.  The model works in      *)
(* exact integers: every energy is a whole number of EUnit-ths of an eV    *)
(* (1e-4 eV), so PREFAC = 0.0591 is 591 and MU_H2O = -2.4583 is -24583.    *)
(* A quantity divided by a number of atoms is kept as a rational <<n, d>>  *)
(* with d > 0 and compared by cross-multiplication.  pH and V arguments    *)
(* are whole pH units and whole volts.                                     *)
(*                                                                         *)
(* Python lists are 0-based, TLA+ sequences 1-based: index i of the model  *)
(* is index i-1 of the code.                                               *)
(*                                                                         *)
(* Code outside src/.  Composition, its comparison and reduced form, and   *)
(* the Reaction balancer are pymatgen classes whose source is not part of  *)
(* src/; they are modelled from their described behaviour.  The scipy      *)
(* classes HalfspaceIntersection and ConvexHull are modelled at their call *)
(* sites.  The angular ordering of a domain's vertices is not part of this *)
(* state machine: a domain is kept as its set of vertices.                 *)
(***************************************************************************)
EXTENDS Integers, Sequences, FiniteSets, TLC

VARIABLES
    entries,               \* the caller's entry list (argument of __init__)
    comp_dict_arg,         \* the caller's comp_dict argument (NoDict or a dict)
    conc_exp,              \* log10 of the conc_dict value of every element
    pc,                    \* "new" | "built" | "failed" ("entry": no diagram)
    error,                 \* the exception construction ended with, or "none"
    unprocessed_entries,   \* self._unprocessed_entries
    processed_entries,     \* self._processed_entries
    multielement,          \* self._multielement
    hs_int,                \* the HalfspaceIntersection of get_pourbaix_domains
    stable_domains,        \* keys of self._stable_domains, in dict order
    stable_domain_vertices,\* self._stable_domain_vertices
    qhull_tie,             \* which of equal half-spaces Qhull keeps
    ret                    \* what the last call returned or raised

vars == <<entries, comp_dict_arg, conc_exp, pc, error, unprocessed_entries,
          processed_entries, multielement, hs_int, stable_domains,
          stable_domain_vertices, qhull_tie, ret>>

---------------------------------------------------------------------------
(* Program constants *)

\* 1 eV in model units (energies are multiples of 1e-4 eV).
EUnit == 10000
\* PREFAC = 0.0591 (eV per pH unit), in model units.
PREFAC == 591
\* MU_H2O = -2.4583 eV, in model units.
MU_H2O == -24583
\* log10 is kept to four decimals: Log10(x) is LogScale * log10(x).
LogScale == 10000

\* limits = [[-2, 16], [-4, 4]] of get_pourbaix_domains.
PHMin == -2
PHMax == 16
VMin == -4
VMax == 4

---------------------------------------------------------------------------
(* Arithmetic helpers *)

Abs(x) == IF x < 0 THEN -x ELSE x

RECURSIVE GCDNat(_, _)
GCDNat(a, b) == IF b = 0 THEN a ELSE GCDNat(b, a % b)
GCD(a, b) == GCDNat(Abs(a), Abs(b))

\* Rationals <<n, d>>, d > 0.
RLess(p, q) == p[1] * q[2] < q[1] * p[2]
RLeq(p, q) == p[1] * q[2] <= q[1] * p[2]
REq(p, q) == p[1] * q[2] = q[1] * p[2]
RNorm(p) == LET g == GCD(p[1], p[2])
                s == IF p[2] < 0 THEN -1 ELSE 1
            IN <<s * (p[1] \div g), s * (p[2] \div g)>>
RAdd(p, q) == RNorm(<<p[1] * q[2] + q[1] * p[2], p[2] * q[2]>>)
RSub(p, q) == RNorm(<<p[1] * q[2] - q[1] * p[2], p[2] * q[2]>>)
RMul(p, q) == RNorm(<<p[1] * q[1], p[2] * q[2]>>)
RDiv(p, q) == RNorm(<<p[1] * q[2], p[2] * q[1]>>)
RInt(n) == <<n, 1>>
RAbs(p) == <<Abs(p[1]), p[2]>>

RECURSIVE SumSeq(_)
SumSeq(s) == IF s = <<>> THEN 0 ELSE Head(s) + SumSeq(Tail(s))

\* The indices 1..n that satisfy Test, in increasing order.
Indices(n) == [i \in 1..n |-> i]
SelectIdx(n, Test(_)) == SelectSeq(Indices(n), Test)

Range(s) == {s[i] : i \in DOMAIN s}

---------------------------------------------------------------------------
(* Entry model: class PourbaixEntry *)

\* The elements of the model: H, O and the non-H/O elements A and B.
NonHO == {"A", "B"}
Comp(h, o, a, b) == [H |-> h, O |-> o, A |-> a, B |-> b]

\* A concentration is the float 10^exp / div.
Conc(k, n) == [exp |-> k, div |-> n]

\* LogScale * log10 of a small whole number, to four decimals.
Log10Int(n) ==
    CASE n = 1 -> 0
      [] n = 2 -> 3010
      [] n = 3 -> 4771
      [] n = 4 -> 6021
      [] n = 5 -> 6990
      [] n = 6 -> 7782

\* np.log10(concentration), times LogScale.
Log10(c) == c.exp * LogScale - Log10Int(c.div)

\* PourbaixEntry.__init__: raw is the wrapped entry (an IonEntry when raw.ion),
\* concentration the constructor argument.
PourbaixEntry(raw, concentration) ==
    IF raw.ion
    THEN [phase_type |-> "Ion", composition |-> raw.composition,
          charge |-> raw.charge, uncorrected_energy |-> raw.energy,
          concentration |-> concentration]
    ELSE [phase_type |-> "Solid", composition |-> raw.composition,
          charge |-> 0, uncorrected_energy |-> raw.energy,
          concentration |-> Conc(0, 1)]

npH(e) == e.composition.H - 2 * e.composition.O

nH2O(e) == e.composition.O

nPhi(e) == npH(e) - e.charge

\* Mutant: the logarithm's sign reversed.
conc_term_negated(e) == -((PREFAC * Log10(e.concentration)) \div LogScale)

\* PREFAC * log10(concentration), rounded down to a model unit.
conc_term(e) == (PREFAC * Log10(e.concentration)) \div LogScale

\* Mutant: the energy at concentration one, whatever the concentration is.
energy_without_conc_term(e) == e.uncorrected_energy - (MU_H2O * nH2O(e))

energy(e) == e.uncorrected_energy + conc_term(e) - (MU_H2O * nH2O(e))

\* pH in pH units, V in volts; the result in model units.
energy_at_conditions(e, pH, V) ==
    energy(e) + npH(e) * PREFAC * pH + nPhi(e) * V * EUnit

num_atoms(c) == c.H + c.O + c.A + c.B

\* The denominator of normalization_factor: the number of non-H/O atoms.
NonHOAtoms(c) == num_atoms(c) - c.H - c.O

elements(c) == {el \in {"H", "O", "A", "B"} : c[el] > 0}

---------------------------------------------------------------------------
(* class MultiEntry and the attributes PourbaixEntry and MultiEntry share *)

RECURSIVE RSumSeq(_)
RSumSeq(s) == IF s = <<>> THEN RInt(0) ELSE RAdd(Head(s), RSumSeq(Tail(s)))

\* MultiEntry.__init__ with weights given.
MultiEntry(entry_list, weights) ==
    [entry_list |-> entry_list, weights |-> weights]

IsMulti(e) == "entry_list" \in DOMAIN e

\* MultiEntry.__getattr__ for the weighted-sum attributes: the sum over the
\* components of Item(component) * weight.
MultiEntry_getattr(m, Item(_)) ==
    RSumSeq([i \in DOMAIN m.entry_list |->
                RMul(RInt(Item(m.entry_list[i])), m.weights[i])])

\* Attribute lookup on a processed entry of either class, as a rational.
getattr(e, Item(_)) ==
    IF IsMulti(e) THEN MultiEntry_getattr(e, Item) ELSE RInt(Item(e))

\* Mutant: the weights left out of the sums.
MultiEntry_attribute_unweighted(m, item) ==
    LET Sum(Item(_)) ==
            RSumSeq([i \in DOMAIN m.entry_list |->
                        RInt(Item(m.entry_list[i]))])
    IN CASE item = "npH" -> Sum(npH)
         [] item = "nH2O" -> Sum(nH2O)
         [] item = "nPhi" -> Sum(nPhi)
         [] item = "conc_term" -> Sum(conc_term)
         [] item = "energy" -> Sum(energy)

\* multi_entry.<item> for the attributes PourbaixEntry defines as properties.
\* The inherited getters of npH and nH2O read self.entry, nPhi reads
\* self.charge and conc_term reads self.concentration; a MultiEntry has none
\* of them, the getter ends in AttributeError and Python falls back to
\* __getattr__, the weighted sum.  The getter of energy succeeds: each of
\* uncorrected_energy, conc_term and nH2O it reads is such a weighted sum.
MultiEntry_attribute(m, item) ==
    CASE item = "npH" -> MultiEntry_getattr(m, npH)
      [] item = "nH2O" -> MultiEntry_getattr(m, nH2O)
      [] item = "nPhi" -> MultiEntry_getattr(m, nPhi)
      [] item = "conc_term" -> MultiEntry_getattr(m, conc_term)
      [] item = "energy" ->
            RSub(RAdd(MultiEntry_getattr(m, LAMBDA e : e.uncorrected_energy),
                      MultiEntry_getattr(m, conc_term)),
                 RMul(RInt(MU_H2O), MultiEntry_getattr(m, nH2O)))

\* multi_entry.composition: sum(e.composition * w), from Composition({}).
WeightedComposition(m) ==
    [el \in {"H", "O", "A", "B"} |->
        MultiEntry_getattr(m, LAMBDA e : e.composition[el])]

EntryNonHOAtoms(e) == NonHOAtoms(e.composition)

\* normalization_factor = 1 / (num_atoms - n(H) - n(O)).
normalization_factor(e) == RDiv(RInt(1), getattr(e, EntryNonHOAtoms))

\* Mutant: the nPhi * V term left out.
P_energy_at_conditions_noV(e, pH, V) ==
    RAdd(getattr(e, energy), RMul(getattr(e, npH), RInt(PREFAC * pH)))

\* energy_at_conditions on either class (MultiEntry inherits the method and
\* reads energy, npH and nPhi through __getattr__).
P_energy_at_conditions(e, pH, V) ==
    RAdd(getattr(e, energy),
         RAdd(RMul(getattr(e, npH), RInt(PREFAC * pH)),
              RMul(getattr(e, nPhi), RInt(V * EUnit))))

normalized_energy_at_conditions(e, pH, V) ==
    RMul(P_energy_at_conditions(e, pH, V), normalization_factor(e))

---------------------------------------------------------------------------
(* Domain constructor: get_pourbaix_domains.                               *)
(*                                                                         *)
(* Coordinates.  The code's half-spaces live in (pH, V, g).  The model     *)
(* uses x = PREFAC * pH, y = V * EUnit and z = g, all in model units, so   *)
(* that the first coefficient of an entry's row is npH * nf instead of     *)
(* PREFAC * npH * nf.  This rescales two axes; it changes neither which    *)
(* half-spaces meet in a vertex nor, mapped back, where.                   *)

\* Mutant: the pH coefficient with the opposite sign.
hyperplane_npH_sign(e) ==
    LET nf == normalization_factor(e)
        Neg(r) == <<-r[1], r[2]>>
    IN <<RMul(getattr(e, npH), nf),
         Neg(RMul(getattr(e, nPhi), nf)),
         RInt(1),
         Neg(RMul(getattr(e, energy), nf))>>

\* One row of `hyperplanes`: [-PREFAC*npH, -nPhi, 0, -energy] * nf, with the
\* third column then set to 1.  Rational entries.
hyperplane(e) ==
    LET nf == normalization_factor(e)
        Neg(r) == <<-r[1], r[2]>>
    IN <<Neg(RMul(getattr(e, npH), nf)),
         Neg(RMul(getattr(e, nPhi), nf)),
         RInt(1),
         Neg(RMul(getattr(e, energy), nf))>>

hyperplanes(pourbaix_entries) ==
    [i \in DOMAIN pourbaix_entries |-> hyperplane(pourbaix_entries[i])]

RMax(p, q) == IF RLess(p, q) THEN q ELSE p

RECURSIVE RMaxSeq(_)
RMaxSeq(s) == IF Len(s) = 1 THEN s[1] ELSE RMax(Head(s), RMaxSeq(Tail(s)))

\* np.max(np.abs(hyperplanes), axis=0)
max_contribs(hp) ==
    [c \in 1..4 |-> RMaxSeq([i \in DOMAIN hp |-> RAbs(hp[i][c])])]

\* np.dot(-max_contribs, [limits[0][1], limits[1][1], 0, 1])
g_max(hp) ==
    LET mc == max_contribs(hp)
        dot == RAdd(RMul(mc[1], RInt(PREFAC * PHMax)),
                    RAdd(RMul(mc[2], RInt(VMax * EUnit)), mc[4]))
    IN <<-dot[1], dot[2]>>

\* np.average(limits, axis=1), in model coordinates.
CenterX == PREFAC * ((PHMin + PHMax) \div 2)
CenterY == EUnit * ((VMin + VMax) \div 2)

\* r . (x, y, z) + r[4] for a rational row r, whole x, y and rational z.
RowValue(r, x, y, z) ==
    RAdd(RAdd(RMul(r[1], RInt(x)), RMul(r[2], RInt(y))),
         RAdd(RMul(r[3], z), r[4]))

\* Qhull accepts the seed only if it is strictly inside every half-space:
\* the entries' (rows of hp), the four window sides (the window centre is
\* strictly between them) and the floor -z + 2*g_max <= 0.
InteriorPointOk(hp) ==
    LET g == g_max(hp)
    IN /\ \A i \in DOMAIN hp : RowValue(hp[i], CenterX, CenterY, g)[1] < 0
       /\ PHMin < PHMax /\ VMin < VMax
       /\ g[1] < 0

LCM(a, b) == (a \div GCD(a, b)) * b

RECURSIVE LCMSeq(_)
LCMSeq(s) == IF s = <<>> THEN 1 ELSE LCM(Head(s), LCMSeq(Tail(s)))

\* The entries' rows scaled to whole numbers by one positive factor.
IntRows(hp) ==
    LET L == LCMSeq([i \in DOMAIN hp |->
                        LCM(hp[i][1][2], LCM(hp[i][2][2], hp[i][4][2]))])
        Scale(r) == r[1] * (L \div r[2])
    IN [i \in DOMAIN hp |->
           <<Scale(hp[i][1]), Scale(hp[i][2]), L, Scale(hp[i][4])>>]

\* border_hyperplanes without the floor, in model coordinates.
SideRows ==
    << <<-1, 0, 0, PREFAC * PHMin>>,
       <<1, 0, 0, -(PREFAC * PHMax)>>,
       <<0, -1, 0, EUnit * VMin>>,
       <<0, 1, 0, -(EUnit * VMax)>> >>

Det3(p, q, r) ==
      p[1] * (q[2] * r[3] - q[3] * r[2])
    - p[2] * (q[1] * r[3] - q[3] * r[1])
    + p[3] * (q[1] * r[2] - q[2] * r[1])

\* The point where three planes meet, as <<Nx, Ny, Nz, D>> with D > 0 and no
\* common factor (x = Nx/D, ...); <<0, 0, 0, 0>> when they do not meet in one.
Meet(p, q, r) ==
    LET D == Det3(p, q, r)
        Rep(w, k) == [j \in 1..3 |-> IF j = k THEN -w[4] ELSE w[j]]
        N(k) == Det3(Rep(p, k), Rep(q, k), Rep(r, k))
        g == GCD(GCD(N(1), N(2)), GCD(N(3), D))
        s == IF D < 0 THEN -1 ELSE 1
    IN IF D = 0 THEN <<0, 0, 0, 0>>
       ELSE <<s * (N(1) \div g), s * (N(2) \div g), s * (N(3) \div g),
              s * (D \div g)>>

Slack(row, P) ==
    row[1] * P[1] + row[2] * P[2] + row[3] * P[3] + row[4] * P[4]

\* The vertices of the intersection that lie above the floor: the points where
\* three of the entry and side planes meet and no half-space is violated.
\* (With the seed accepted, g_max < 0 and every entry plane is >= g_max over
\* the window, so the floor 2*g_max is below all of them.)
TopVertices(rows) ==
    LET n == Len(rows)
        Pts == {Meet(rows[t[1]], rows[t[2]], rows[t[3]]) :
                  t \in {u \in (1..n) \X (1..n) \X (1..n) :
                            u[1] < u[2] /\ u[2] < u[3]}}
    IN {P \in Pts : P[4] > 0 /\ \A i \in 1..n : Slack(rows[i], P) <= 0}

Active(rows, P) == {i \in 1..Len(rows) : Slack(rows[i], P) = 0}

\* Two entries with the same hyperplane are one point of the dual; Qhull keeps
\* one of them as a vertex of the dual hull and reports the other as a
\* coplanar point.  Which one is not specified: any choice of one
\* representative per set of equal hyperplanes.
KeepChoices(hp) ==
    {K \in SUBSET (DOMAIN hp) :
        \A i \in DOMAIN hp : Cardinality({j \in K : hp[j] = hp[i]}) = 1}

\* Mutant: every half-space through a vertex is reported in its dual facet,
\* also one that only touches the intersection there.
HalfspaceIntersection_touching(hp, keep) ==
    LET n == Len(hp)
        rows == IntRows(hp) \o SideRows
        tv == TopVertices(rows)
        Extreme == keep \cup ((n + 1)..(n + 5))
        Pt(P) == <<RNorm(<<P[1], P[4] * PREFAC>>),
                   RNorm(<<P[2], P[4] * EUnit>>)>>
        top == {[pt |-> Pt(P), facet |-> Active(rows, P) \cap Extreme] :
                  P \in tv}
        bottom == {[pt |-> <<RInt(c[1]), RInt(c[2])>>,
                    facet |-> {IF c[1] = PHMin THEN n + 1 ELSE n + 2,
                               IF c[2] = VMin THEN n + 3 ELSE n + 4,
                               n + 5}] :
                     c \in {PHMin, PHMax} \X {VMin, VMax}}
    IN top \cup bottom

\* scipy.spatial.HalfspaceIntersection(hs_hyperplanes, interior_point) for an
\* accepted seed: one record per vertex of the intersection, with its (pH, V)
\* coordinates (hs_int.intersections[:, :2]) and the indices of the
\* half-spaces that are vertices of its dual facet (hs_int.dual_facets).
\* Half-space indices: 1..n the entries, n+1..n+4 the window sides, n+5 the
\* floor.  A half-space is a vertex of the dual hull when it bounds a
\* two-dimensional face of the intersection, i.e. when three or more
\* vertices lie on its plane.
HalfspaceIntersection(hp, keep) ==
    LET n == Len(hp)
        rows == IntRows(hp) \o SideRows
        tv == TopVertices(rows)
        OnPlane(i) == {P \in tv : Slack(rows[i], P) = 0}
        Extreme == {i \in keep : Cardinality(OnPlane(i)) >= 3}
                     \cup ((n + 1)..(n + 5))
        Pt(P) == <<RNorm(<<P[1], P[4] * PREFAC>>),
                   RNorm(<<P[2], P[4] * EUnit>>)>>
        top == {[pt |-> Pt(P), facet |-> Active(rows, P) \cap Extreme] :
                  P \in tv}
        bottom == {[pt |-> <<RInt(c[1]), RInt(c[2])>>,
                    facet |-> {IF c[1] = PHMin THEN n + 1 ELSE n + 2,
                               IF c[2] = VMin THEN n + 3 ELSE n + 4,
                               n + 5}] :
                     c \in {PHMin, PHMax} \X {VMin, VMax}}
    IN top \cup bottom

\* Mutant: the points of half-space v + 1 attributed to entry v.
DomainPoints_shifted(h, n, v) ==
    IF v <= n THEN {r.pt : r \in {q \in h : (v + 1) \in q.facet}} ELSE {}

\* "organize the boundary points by entry": the intersections whose dual
\* facet names half-space v, for v below len(pourbaix_entries).
DomainPoints(h, n, v) ==
    IF v <= n THEN {r.pt : r \in {q \in h : v \in q.facet}} ELSE {}

\* "Remove entries with no pourbaix region": the keys left, in dict order.
NonEmptyDomains(h, n) ==
    SelectIdx(n, LAMBDA v : DomainPoints(h, n, v) # {})

\* scipy.spatial.ConvexHull(points) raises QhullError for fewer than three
\* points and for collinear points.  The points of one entry are vertices of
\* one face of a convex polytope, so they are collinear only if they are
\* fewer than three.
ConvexHullFails(points) == Cardinality(points) < 3

---------------------------------------------------------------------------
(* Ordering the vertices of a domain *)

\* The sign of p/q - r/s for positive whole p, q, r, s, found without
\* multiplying: by the whole parts, then by the inverted remainders.
RECURSIVE CmpFrac(_, _, _, _)
CmpFrac(p, q, r, s) ==
    LET ip == p \div q
        ir == r \div s
        rp == p % q
        rr == r % s
    IN IF ip # ir THEN (IF ip < ir THEN -1 ELSE 1)
       ELSE IF rp = 0 /\ rr = 0 THEN 0
       ELSE IF rp = 0 THEN -1
       ELSE IF rr = 0 THEN 1
       ELSE CmpFrac(s, rr, q, rp)

SignOf(n) == IF n > 0 THEN 1 ELSE IF n < 0 THEN -1 ELSE 0

\* The sign of a*b - c*d for whole numbers, without forming the products.
CmpProd(a, b, c, d) ==
    LET s1 == SignOf(a) * SignOf(b)
        s2 == SignOf(c) * SignOf(d)
    IN IF s1 # s2 THEN (IF s1 < s2 THEN -1 ELSE 1)
       ELSE IF s1 = 0 THEN 0
       ELSE s1 * CmpFrac(Abs(a), Abs(c), Abs(d), Abs(b))

\* Mutant: the points compared by x[0]*y[0] + x[1]*y[1].
point_comparator_dot(x, y) == CmpProd(x[1], y[1], -x[2], y[2])

\* point_comparator = lambda x, y: x[0]*y[1] - x[1]*y[0], of which the sort
\* reads the sign only; the sign is what the model keeps.
point_comparator(x, y) == CmpProd(x[1], y[2], x[2], y[1])

\* K(x) < K(y) for the keys cmp_to_key makes: the comparator is negative.
IsLT(x, y) == point_comparator(x, y) < 0

\* points[np.lexsort(np.transpose(points))]: the last key, the second
\* coordinate, is the primary one.
RECURSIVE lexsort(_)
lexsort(S) ==
    IF S = {} THEN <<>>
    ELSE LET lo == CHOOSE p \in S :
                     \A q \in S \ {p} :
                        p[2] < q[2] \/ (p[2] = q[2] /\ p[1] < q[1])
         IN <<lo>> \o lexsort(S \ {lo})

\* list.sort's count_run: the last position of the run that begins the
\* list, strictly descending when desc and non-descending otherwise.
RECURSIVE run_end(_, _, _)
run_end(a, i, desc) ==
    IF i = Len(a) THEN i
    ELSE IF desc = IsLT(a[i + 1], a[i]) THEN run_end(a, i + 1, desc)
    ELSE i

\* list.sort's binarysort search: where pivot goes among a[l..r-1].
RECURSIVE insertion_point(_, _, _, _)
insertion_point(a, pivot, l, r) ==
    IF l >= r THEN l
    ELSE LET p == l + ((r - l) \div 2)
         IN IF IsLT(pivot, a[p]) THEN insertion_point(a, pivot, l, p)
            ELSE insertion_point(a, pivot, p + 1, r)

\* list.sort's binarysort: a[1..start] is sorted; the rest is inserted one
\* by one.
RECURSIVE binarysort(_, _)
binarysort(a, start) ==
    IF start >= Len(a) THEN a
    ELSE LET pivot == a[start + 1]
             l == insertion_point(a, pivot, 1, start + 1)
             moved == [i \in DOMAIN a |->
                          IF i < l THEN a[i]
                          ELSE IF i = l THEN pivot
                          ELSE IF i <= start + 1 THEN a[i - 1]
                          ELSE a[i]]
         IN binarysort(moved, start + 1)

\* sorted(a, key=cmp_to_key(point_comparator)) for fewer than 64 items: the
\* initial run is found (and reversed when descending), the rest is sorted
\* in by binary insertion.
sorted(a) ==
    IF Len(a) < 2 THEN a
    ELSE LET desc == IsLT(a[2], a[1])
             n == run_end(a, 2, desc)
             run == [i \in DOMAIN a |->
                        IF desc /\ i <= n THEN a[n + 1 - i] ELSE a[i]]
         IN binarysort(run, n)

\* points - center for points in whole coordinates, kept n-fold (n the
\* number of points) so that they stay whole; no sign of the comparator
\* depends on the factor.
points_centered(points) ==
    LET n == Len(points)
        sx == SumSeq([i \in DOMAIN points |-> points[i][1]])
        sy == SumSeq([i \in DOMAIN points |-> points[i][2]])
    IN [i \in DOMAIN points |->
           <<n * points[i][1] - sx, n * points[i][2] - sy>>]

\* Lines 578-590 for points in whole coordinates: lexsort, centre, sort by
\* the comparator, add the centre back.
order_points(P) ==
    LET points == lexsort(P)
        n == Len(points)
        sx == SumSeq([i \in DOMAIN points |-> points[i][1]])
        sy == SumSeq([i \in DOMAIN points |-> points[i][2]])
        s == sorted(points_centered(points))
    IN [i \in DOMAIN s |-> <<(s[i][1] + sx) \div n, (s[i][2] + sy) \div n>>]

RECURSIVE LCMSet(_)
LCMSet(S) ==
    IF S = {} THEN 1
    ELSE LET d == CHOOSE x \in S : TRUE IN LCM(d, LCMSet(S \ {d}))

\* Lines 578-590 for the points of one entry: the vertices in the order
\* stored in _stable_domain_vertices.  The (pH, V) coordinates are brought
\* to whole numbers by one positive factor per axis, which changes neither
\* the lexicographic order nor a sign of the comparator.
order_vertices(S) ==
    LET Lx == LCMSet({p[1][2] : p \in S})
        Ly == LCMSet({p[2][2] : p \in S})
        Whole(p) == <<p[1][1] * (Lx \div p[1][2]), p[2][1] * (Ly \div p[2][2])>>
        s == order_points({Whole(p) : p \in S})
    IN [i \in DOMAIN s |-> <<RNorm(<<s[i][1], Lx>>), RNorm(<<s[i][2], Ly>>)>>]

---------------------------------------------------------------------------
(* Inputs *)

\* The longest entry list a caller passes.
MaxEntries == 3

\* The wrapped entries a caller draws from (energies in model units).
RawEntry(is_ion, c, q, en) ==
    [ion |-> is_ion, composition |-> c, charge |-> q, energy |-> en]

RawPool ==
    << RawEntry(FALSE, Comp(0, 0, 1, 0), 0, 0),         \* A(s)
       RawEntry(FALSE, Comp(0, 0, 1, 0), 0, 10000),     \* A(s), +1 eV
       RawEntry(FALSE, Comp(0, 1, 1, 0), 0, -30000),    \* AO(s)
       RawEntry(FALSE, Comp(2, 0, 1, 0), 0, 0),         \* AH2(s)
       RawEntry(FALSE, Comp(0, 3, 2, 0), 0, -70000),    \* A2O3(s)
       RawEntry(TRUE, Comp(0, 0, 1, 0), 2, -10000),     \* A[2+]
       RawEntry(TRUE, Comp(0, 2, 1, 0), -1, -40000),    \* AO2[-]
       RawEntry(FALSE, Comp(0, 0, 0, 1), 0, 0),         \* B(s)
       RawEntry(TRUE, Comp(0, 0, 0, 1), 1, -5000),      \* B[+]
       RawEntry(FALSE, Comp(0, 0, 1, 1), 0, -8000),     \* AB(s)
       RawEntry(FALSE, Comp(2, 0, 1, 0), 0, 92364),     \* AH2(s), 9.2364 eV
       RawEntry(TRUE, Comp(0, 1, 2, 0), 2, -20000),     \* A2O[2+]
       RawEntry(TRUE, Comp(0, 0, 1, 1), 1, -8000),      \* AB[+]
       RawEntry(TRUE, Comp(2, 0, 1, 0), 3, 20000) >>    \* AH2[3+]

\* The default concentration argument of PourbaixEntry.__init__, 1e-6.
DefaultConc == Conc(-6, 1)

\* A wrapped entry whose phase_type attribute the caller has set to a value
\* that is neither "Solid" nor "Ion".
LiquidEntry ==
    [PourbaixEntry(RawPool[1], DefaultConc) EXCEPT !.phase_type = "Liquid"]

PoolEntries ==
    {PourbaixEntry(RawPool[i], DefaultConc) : i \in DOMAIN RawPool}
        \cup {LiquidEntry}

\* A comp_dict a caller passes: one third A, two thirds B.
UnequalSplit == [el \in {"A", "B"} |-> IF el = "A" THEN <<1, 3>> ELSE <<2, 3>>]

\* A comp_dict a caller passes that names one element only.
SingleElement == [el \in {"A"} |-> <<1, 1>>]

\* The longest entry list passed together with a comp_dict.
MaxEntriesWithCompDict == 2

\* log10 of the concentrations a caller asks for in conc_dict.
ConcExps == {-6, -8}

\* The (pH, V) points queries are made at: the window's grid.
GridPH == PHMin..PHMax
GridV == VMin..VMax
QueryPH == {PHMin, 0}
QueryV == {VMin, 0}

---------------------------------------------------------------------------
(* PourbaixDiagram.__init__ *)

\* Non-H/O elements of the entries.
pbx_elts(es) ==
    UNION {elements(es[i].composition) : i \in DOMAIN es} \ {"H", "O"}

\* The comp_dict arguments None and {}: `not comp_dict` holds for both.
NoDict == [el \in {} |-> <<0, 1>>]

\* comp_dict after the default: element -> fraction.
comp_dict(es, arg) ==
    IF DOMAIN arg = {}
    THEN [el \in pbx_elts(es) |-> <<1, Cardinality(pbx_elts(es))>>]
    ELSE arg

SubSeqOf(es, Test(_)) == SelectSeq(es, Test)

ion_elts(e) == elements(e.composition) \ {"H", "O"}

\* Mutant: the normalization factor left out of the assignment.
AssignConcentration_unnormalized(e, k) ==
    IF e.phase_type = "Ion"
    THEN [e EXCEPT !.concentration = Conc(k, 1)]
    ELSE e

\* Mutant: the entry's concentration is scaled where it is, instead of being
\* replaced (entry.concentration *= ...).
AssignConcentration_cumulative(e, k) ==
    IF e.phase_type = "Ion"
    THEN [e EXCEPT !.concentration =
                      Conc(e.concentration.exp + k,
                           e.concentration.div * NonHOAtoms(e.composition))]
    ELSE e

\* entry.concentration = conc_dict[elt] * entry.normalization_factor
AssignConcentration(e, k) ==
    IF e.phase_type = "Ion"
    THEN [e EXCEPT !.concentration = Conc(k, NonHOAtoms(e.composition))]
    ELSE e

IsSolid(e) == e.phase_type = "Solid"
IsIon(e) == e.phase_type = "Ion"

\* Multi-Entry Generator

AllElements == {"H", "O", "A", "B"}

\* Composition(comp_dict): the amount of every element, as rationals.
Composition(cd) ==
    [el \in AllElements |-> IF el \in DOMAIN cd THEN cd[el] ELSE RInt(0)]

RECURSIVE GCDSeq(_)
GCDSeq(s) == IF s = <<>> THEN 0 ELSE GCD(Head(s), GCDSeq(Tail(s)))

\* Composition.reduced_composition: the amounts divided by their greatest
\* common divisor.
reduced_composition(c) ==
    LET g == GCDSeq(<<c.H, c.O, c.A, c.B>>)
    IN [el \in AllElements |-> c[el] \div g]

\* MultiEntry(x).composition with the default weights 1.0: the sum of the
\* components' compositions.
SumComposition(es) ==
    [el \in AllElements |->
        SumSeq([i \in DOMAIN es |-> es[i].composition[el]])]

\* total_comp < composition for Compositions: the target is covered element
\* by element and is not the composition itself.
CompositionLess(total, c) ==
    /\ \A el \in AllElements : RLeq(total[el], RInt(c[el]))
    /\ \E el \in AllElements : RLess(total[el], RInt(c[el]))

\* itertools.combinations(range(lo, n + 1), r), in its (lexicographic) order.
RECURSIVE combinations(_, _, _)
combinations(lo, n, r) ==
    IF r = 0 THEN << <<>> >>
    ELSE IF lo > n THEN <<>>
    ELSE LET with == combinations(lo + 1, n, r - 1)
         IN [k \in DOMAIN with |-> <<lo>> \o with[k]]
              \o combinations(lo + 1, n, r)

RECURSIVE Flatten(_)
Flatten(ss) == IF ss = <<>> THEN <<>> ELSE Head(ss) \o Flatten(Tail(ss))

\* Reaction(entry_comps + [H, O], [prod_comp]): the amounts c_i of the
\* entries consumed to make one prod_comp, H and O being supplied or taken
\* up freely; "ReactionError" when the non-H/O elements cannot be balanced
\* by exactly one choice of amounts.  comps has one or two compositions.
Reaction(comps, prod) ==
    IF Len(comps) = 1
    THEN LET a == comps[1].A
             b == comps[1].B
         IN IF a = 0 /\ b = 0 THEN [status |-> "ReactionError"]
            ELSE LET c == IF a > 0 THEN RDiv(prod.A, RInt(a))
                          ELSE RDiv(prod.B, RInt(b))
                 IN IF /\ REq(RMul(c, RInt(a)), prod.A)
                       /\ REq(RMul(c, RInt(b)), prod.B)
                    THEN [status |-> "ok", coeffs |-> <<c>>]
                    ELSE [status |-> "ReactionError"]
    ELSE LET a1 == comps[1].A
             b1 == comps[1].B
             a2 == comps[2].A
             b2 == comps[2].B
             det == a1 * b2 - a2 * b1
         IN IF det = 0 THEN [status |-> "ReactionError"]
            ELSE [status |-> "ok",
                  coeffs |->
                    << RDiv(RSub(RMul(prod.A, RInt(b2)),
                                 RMul(prod.B, RInt(a2))), RInt(det)),
                       RDiv(RSub(RMul(prod.B, RInt(a1)),
                                 RMul(prod.A, RInt(b1))), RInt(det)) >>]

\* The float 10^k / n as a rational, for k <= 0.
RECURSIVE Pow10(_)
Pow10(k) == IF k = 0 THEN 1 ELSE 10 * Pow10(k - 1)
ConcValue(c) == <<1, Pow10(-c.exp) * c.div>>

\* coeff > 10^-m / d for the amount coeff = p/q (q > 0), without forming
\* 10^m: p * d * 10^j is compared with q for j = 0..m.
RECURSIVE ExceedsConc(_, _, _, _)
ExceedsConc(p, q, d, m) ==
    IF p <= 0 THEN FALSE
    ELSE IF p * d > q THEN TRUE
    ELSE IF m = 0 THEN FALSE
    ELSE ExceedsConc(10 * p, q, d, m - 1)

\* Mutant: coeffs >= thresh.
ExceedsThreshold_or_equal(coeff, e) ==
    IF IsIon(e)
    THEN ~RLess(coeff, ConcValue(e.concentration))
    ELSE ~RLess(coeff, <<1, 1000>>)

\* coeffs > thresh, for one entry of the list.
ExceedsThreshold(coeff, e) ==
    IF IsIon(e)
    THEN ExceedsConc(coeff[1], coeff[2], e.concentration.div,
                     -e.concentration.exp)
    ELSE ExceedsConc(coeff[1], coeff[2], 1, 3)

\* The feasibility threshold of a solid: 1e-3.
SolidThresh == <<1, 1000>>

\* Python's None, as a record so that it compares with entries.
None == [none |-> TRUE]

\* Mutant: every balanced combination accepted, whatever its amounts.
process_multientry_no_threshold(entry_list, prod_comp) ==
    LET rxn == Reaction([i \in DOMAIN entry_list |->
                            IF IsIon(entry_list[i])
                            THEN entry_list[i].composition
                            ELSE reduced_composition(
                                     entry_list[i].composition)],
                        prod_comp)
    IN IF rxn.status = "ReactionError" THEN None
       ELSE MultiEntry(entry_list,
                       [i \in DOMAIN rxn.coeffs |->
                           RDiv(rxn.coeffs[i], rxn.coeffs[1])])

\* process_multientry(entry_list, prod_comp): a MultiEntry, or None.
process_multientry(entry_list, prod_comp) ==
    LET entry_comps == [i \in DOMAIN entry_list |->
                           IF IsIon(entry_list[i])
                           THEN entry_list[i].composition
                           ELSE reduced_composition(entry_list[i].composition)]
        rxn == Reaction(entry_comps, prod_comp)
    IN IF rxn.status = "ReactionError" THEN None
       ELSE IF \A i \in DOMAIN rxn.coeffs :
                  ExceedsThreshold(rxn.coeffs[i], entry_list[i])
       THEN MultiEntry(entry_list,
                       [i \in DOMAIN rxn.coeffs |->
                           RDiv(rxn.coeffs[i], rxn.coeffs[1])])
       ELSE None

\* Mutant: combinations of 1..N pool entries whatever is forced in.
index_combos_ignoring_forced(N, n, F) ==
    Flatten([j \in 1..N |-> combinations(1, n, j)])

\* chain.from_iterable(combinations(entries, j + 1 - len(forced_include))
\* for j in range(N)), as positions of the n pool entries; F is
\* len(forced_include).
index_combos(N, n, F) ==
    Flatten([j \in 1..N |-> combinations(1, n, j - F)])

\* The entries of s before its first None.
RECURSIVE UntilNone(_)
UntilNone(s) ==
    IF s = <<>> \/ Head(s) = None THEN <<>>
    ELSE <<Head(s)>> \o UntilNone(Tail(s))

\* Mutant: the loop over the combinations ends at the first combination that
\* yields no entry.
generate_multielement_entries_abort(elt_comp, es, forced_include) ==
    LET N == Cardinality(DOMAIN elt_comp)
        total_comp == Composition(elt_comp)
        idx_combos == index_combos(N, Len(es), Len(forced_include))
        entry_combos == SelectSeq(
                           [k \in DOMAIN idx_combos |->
                               forced_include
                                 \o [m \in DOMAIN idx_combos[k] |->
                                        es[idx_combos[k][m]]]],
                           LAMBDA x : CompositionLess(total_comp,
                                                      SumComposition(x)))
    IN UntilNone([k \in DOMAIN entry_combos |->
                     process_multientry(entry_combos[k], total_comp)])

\* _generate_multielement_entries(entries, forced_include) for the target
\* elt_comp (self._elt_comp): the MultiEntries, in the order they are found.
generate_multielement_entries(elt_comp, es, forced_include) ==
    LET N == Cardinality(DOMAIN elt_comp)
        total_comp == Composition(elt_comp)
        idx_combos == index_combos(N, Len(es), Len(forced_include))
        entry_combos0 == [k \in DOMAIN idx_combos |->
                            forced_include
                              \o [m \in DOMAIN idx_combos[k] |->
                                     es[idx_combos[k][m]]]]
        entry_combos == SelectSeq(entry_combos0,
                           LAMBDA x : CompositionLess(total_comp,
                                                      SumComposition(x)))
        results == [k \in DOMAIN entry_combos |->
                       process_multientry(entry_combos[k], total_comp)]
    IN SelectSeq(results, LAMBDA r : r # None)


NoDomains == [v \in {} |-> {}]

\* Construction raised exc: no diagram exists.
Fail(exc) ==
    /\ pc' = "failed"
    /\ error' = exc
    /\ UNCHANGED <<unprocessed_entries, processed_entries, multielement,
                   hs_int, stable_domains, stable_domain_vertices>>

\* The half-spaces Qhull reports as vertices of the dual hull when several
\* are equal: Qhull is deterministic, so for one library build the same one
\* of equal half-spaces is kept every time; tie names that rule.
dual_vertices(hp, tie) ==
    CHOOSE K \in KeepChoices(hp) :
        \A i \in K : \A j \in DOMAIN hp :
            hp[j] = hp[i] => IF tie = "first" THEN i <= j ELSE i >= j

\* get_pourbaix_domains(pourbaix_entries): the exception it raises, or the
\* half-space intersection, the keys of the domain mapping in dict order and
\* the vertices of every key.
get_pourbaix_domains(pourbaix_entries, tie) ==
    LET n == Len(pourbaix_entries)
        hp == hyperplanes(pourbaix_entries)
    IN IF n = 0
       THEN [status |-> "IndexError"]  \* hyperplanes[:, 2] on an empty array
       ELSE IF ~InteriorPointOk(hp)
       THEN [status |-> "QhullError"]  \* HalfspaceIntersection rejects the seed
       ELSE LET h == HalfspaceIntersection(hp, dual_vertices(hp, tie))
                keys == NonEmptyDomains(h, n)
            IN IF \E k \in DOMAIN keys :
                     ConvexHullFails(DomainPoints(h, n, keys[k]))
               THEN [status |-> "QhullError"]
               ELSE [status |-> "ok", hs_int |-> h, keys |-> keys,
                     vertices |-> [v \in Range(keys) |->
                                      order_vertices(
                                          DomainPoints(h, n, v))]]

\* Mutant: ions of any composition accepted.
IonsAreElemental_unchecked(es) == TRUE

\* The loop over ion_entries raises no ValueError: every ion has exactly one
\* element besides H and O.
IonsAreElemental(es) ==
    \A i \in DOMAIN es :
        IsIon(es[i]) => Cardinality(ion_elts(es[i])) = 1

\* Mutant: entries of any phase type accepted.
AllSolidOrIon_unchecked(es) == TRUE

\* len(solid_entries + ion_entries) == len(entries)
AllSolidOrIon(es) ==
    Len(SelectSeq(es, IsSolid) \o SelectSeq(es, IsIon)) = Len(es)

\* Mutant: no copy is made, and the ion loop assigns to the caller's own
\* objects, up to the ion at which it raises.
CallerEntries_aliased(es, k) ==
    [i \in DOMAIN es |->
        IF /\ IsIon(es[i])
           /\ \A j \in 1..i :
                 IsIon(es[j]) => Cardinality(ion_elts(es[j])) = 1
        THEN AssignConcentration(es[i], k)
        ELSE es[i]]

\* Mutant: no copy is made, and the concentration is assigned to every
\* entry of the caller's list, solids included.
CallerEntries_all_assigned(es, k) ==
    [i \in DOMAIN es |->
        [es[i] EXCEPT !.concentration =
                         Conc(k, NonHOAtoms(es[i].composition))]]

\* entries = deepcopy(entries): everything the constructor assigns
\* afterwards is assigned to the copies, and the caller's list and entry
\* objects are after the call what they were before it.
CallerEntries(es, k) == es

\* Mutant: the branch taken by the number of elements the entries span.
is_multielement_by_elements(es, cd) == Cardinality(pbx_elts(es)) > 1

\* len(comp_dict) > 1, the test that sets self._multielement.
is_multielement(es, cd) == Cardinality(DOMAIN cd) > 1

\* Lines 430-440: the processed entries and the domains, from the solids and
\* ions that are left.
DiagramOver(es, cd, solid_entries, ion_entries, tie) ==
    LET multi == is_multielement(es, cd)
        processed ==
            IF multi
            THEN generate_multielement_entries(
                     cd, solid_entries \o ion_entries, <<>>)
            ELSE solid_entries \o ion_entries
    IN get_pourbaix_domains(processed, tie)
         @@ [unprocessed |-> es, processed |-> processed, multi |-> multi,
             preprocessed |-> solid_entries \o ion_entries]

\* PourbaixDiagram.__init__(entries, comp_dict, conc_dict) with
\* filter_solids=False: the exception raised, or the attributes assigned.
PourbaixDiagram(es_in, cd_arg, k, tie) ==
    LET cd == comp_dict(es_in, cd_arg)
    IN IF ~IonsAreElemental(es_in) THEN [status |-> "ValueError"]
       ELSE IF ~AllSolidOrIon(es_in) THEN [status |-> "ValueError"]
       ELSE LET es == [i \in DOMAIN es_in |->
                          AssignConcentration(es_in[i], k)]
            IN DiagramOver(es, cd, SelectSeq(es, IsSolid),
                           SelectSeq(es, IsIon), tie)

\* diagram = PourbaixDiagram(entries, comp_dict, conc_dict)
Construct ==
    /\ pc = "new"
    /\ \E d \in {PourbaixDiagram(entries, comp_dict_arg, conc_exp,
                                   qhull_tie)} :
          IF d.status # "ok"
          THEN Fail(d.status)
          ELSE /\ pc' = "built"
               /\ error' = "none"
               /\ unprocessed_entries' = d.unprocessed
               /\ processed_entries' = d.processed
               /\ multielement' = d.multi
               /\ hs_int' = d.hs_int
               /\ stable_domains' = d.keys
               /\ stable_domain_vertices' = d.vertices
    /\ ret' = [op |-> "__init__"]
    /\ entries' = CallerEntries(entries, conc_exp)
    /\ UNCHANGED <<comp_dict_arg, conc_exp, qhull_tie>>

---------------------------------------------------------------------------
(* Queries on a constructed diagram *)

\* The property stable_entries: list(self._stable_domains.keys()), as indices
\* into the processed entries.
stable_entries == stable_domains

\* The property unstable_entries:
\* [e for e in self._stable_domains.keys() if e not in self.stable_entries]
unstable_entries ==
    SelectSeq(stable_domains, LAMBDA e : e \notin Range(stable_entries))

\* The property all_entries.
all_entries == processed_entries

\* Mutant: the last index of a minimum instead of the first.
argmin_last(xs) ==
    CHOOSE i \in DOMAIN xs :
        /\ \A j \in DOMAIN xs : RLeq(xs[i], xs[j])
        /\ \A j \in (i + 1)..Len(xs) : ~RLeq(xs[j], xs[i])

\* np.argmin over a list of rationals: the first index of a minimum.
argmin(xs) ==
    CHOOSE i \in DOMAIN xs :
        /\ \A j \in DOMAIN xs : RLeq(xs[i], xs[j])
        /\ \A j \in 1..(i - 1) : ~RLeq(xs[j], xs[i])

\* np.min over a non-empty list of rationals.
min(xs) == xs[argmin(xs)]

find_stable_entry(pH, V) ==
    LET energies_at_conditions ==
            [k \in DOMAIN stable_entries |->
                normalized_energy_at_conditions(
                    processed_entries[stable_entries[k]], pH, V)]
    IN stable_entries[argmin(energies_at_conditions)]

\* The positional parameters of normalized_energy_at_conditions after self.
normalized_energy_at_conditions_params == <<"pH", "V">>

\* A Python call e.normalized_energy_at_conditions(*args): a TypeError unless
\* the arguments match the parameters, else the value.
call_normalized_energy_at_conditions(e, args) ==
    IF Len(args) # Len(normalized_energy_at_conditions_params)
    THEN [status |-> "TypeError"]
    ELSE [status |-> "ok",
          val |-> normalized_energy_at_conditions(e, args[1], args[2])]

\* get_hull_energy(pH, V, correct_oer=False, correct_her=False)
get_hull_energy(pH, V, correct_oer, correct_her) ==
    LET all_gs == [k \in DOMAIN stable_entries |->
                      call_normalized_energy_at_conditions(
                          processed_entries[stable_entries[k]],
                          <<pH, V, correct_oer, correct_her>>)]
    IN IF \E k \in DOMAIN all_gs : all_gs[k].status # "ok"
       THEN [status |-> "TypeError"]
       ELSE IF all_gs = <<>>
       THEN [status |-> "ValueError"]      \* np.min of an empty array
       ELSE [status |-> "ok",
             val |-> min([k \in DOMAIN all_gs |-> all_gs[k].val])]

\* The entry objects a caller can pass to get_decomposition_energy: entries
\* of the diagram, named by the list they are in and their index.
\* (In a single-element diagram the processed entries are the unprocessed
\* entry objects themselves.)
EntryRefs ==
    ({"processed"} \X DOMAIN processed_entries)
        \cup (IF multielement
              THEN {"unprocessed"} \X DOMAIN unprocessed_entries
              ELSE {})

Deref(ref) ==
    IF ref[1] = "processed" THEN processed_entries[ref[2]]
    ELSE unprocessed_entries[ref[2]]

\* self._elt_comp and self._preprocessed_entries, which __init__ sets from
\* its arguments and nothing changes afterwards.
elt_comp == comp_dict(entries, comp_dict_arg)
preprocessed_entries ==
    SelectSeq(unprocessed_entries, IsSolid)
        \o SelectSeq(unprocessed_entries, IsIon)

\* The attributes a MultiEntry answers: those of its own __dict__, those
\* __getattr__ computes from the entry list, and the properties inherited
\* from PourbaixEntry that do not themselves read a missing attribute.
MultiEntryAttributes ==
    {"weights", "entry_list", "energy", "npH", "nH2O", "nPhi", "conc_term",
     "composition", "uncorrected_energy", "entry_id", "name",
     "normalization_factor", "num_atoms"}

get_decomposition_energy(entry, pH, V) ==
    LET multi_branch == multielement /\ ~IsMulti(entry)
        possible_entries0 ==
            IF multi_branch
            THEN generate_multielement_entries(
                     elt_comp, preprocessed_entries, <<entry>>)
            ELSE <<>>
        possible_energies ==
            IF multi_branch
            THEN [k \in DOMAIN possible_entries0 |->
                     normalized_energy_at_conditions(possible_entries0[k],
                                                     pH, V)]
            ELSE <<normalized_energy_at_conditions(entry, pH, V)>>
        hull == get_hull_energy(pH, V, FALSE, FALSE)
    IN IF /\ multi_branch
          /\ possible_entries0 # <<>>
          /\ "phases" \notin MultiEntryAttributes
       THEN [status |-> "AttributeError"]   \* e.phases in the filter
       ELSE IF possible_energies = <<>>
       THEN [status |-> "ValueError"]       \* np.min of an empty list
       ELSE IF hull.status # "ok"
       THEN [status |-> hull.status]
       ELSE [status |-> "ok",
             val |-> RSub(min(possible_energies), hull.val)]

\* What a query assigns: nothing.  No query method of PourbaixDiagram has an
\* assignment to an attribute of self or of an entry.
\* Mutant: a query stores its working list over the processed entries.
ReadOnly_overwriting ==
    /\ processed_entries' = <<>>
    /\ UNCHANGED <<entries, comp_dict_arg, conc_exp, pc, error,
                   unprocessed_entries, multielement, hs_int, stable_domains,
                   stable_domain_vertices, qhull_tie>>

\* No query assigns an attribute of the diagram or of an entry.
ReadOnly ==
    UNCHANGED <<entries, comp_dict_arg, conc_exp, pc, error,
                unprocessed_entries, processed_entries, multielement,
                hs_int, stable_domains, stable_domain_vertices, qhull_tie>>

FindStableEntry(pH, V) ==
    /\ pc = "built"
    /\ ret' = [op |-> "find_stable_entry", pH |-> pH, V |-> V,
               status |-> "ok", val |-> find_stable_entry(pH, V)]
    /\ ReadOnly

GetHullEnergy(pH, V) ==
    /\ pc = "built"
    /\ ret' = [op |-> "get_hull_energy", pH |-> pH, V |-> V]
                 @@ get_hull_energy(pH, V, FALSE, FALSE)
    /\ ReadOnly

GetDecompositionEnergy(ref, pH, V) ==
    /\ pc = "built"
    /\ ret' = [op |-> "get_decomposition_energy", entry |-> ref,
               pH |-> pH, V |-> V]
                 @@ get_decomposition_energy(Deref(ref), pH, V)
    /\ ReadOnly

StableEntries ==
    /\ pc = "built"
    /\ ret' = [op |-> "stable_entries", status |-> "ok",
               val |-> stable_entries]
    /\ ReadOnly

UnstableEntries ==
    /\ pc = "built"
    /\ ret' = [op |-> "unstable_entries", status |-> "ok",
               val |-> unstable_entries]
    /\ ReadOnly

AllEntries ==
    /\ pc = "built"
    /\ ret' = [op |-> "all_entries", status |-> "ok", val |-> all_entries]
    /\ ReadOnly

UnprocessedEntries ==
    /\ pc = "built"
    /\ ret' = [op |-> "unprocessed_entries", status |-> "ok",
               val |-> unprocessed_entries]
    /\ ReadOnly

---------------------------------------------------------------------------
(* The state machine *)

Init ==
    /\ entries \in UNION {[1..k -> PoolEntries] : k \in 0..MaxEntries}
    /\ comp_dict_arg \in IF Len(entries) <= MaxEntriesWithCompDict
                          THEN {NoDict, UnequalSplit, SingleElement}
                          ELSE {NoDict}
    /\ conc_exp \in IF \E i \in DOMAIN entries : IsIon(entries[i])
                     THEN ConcExps ELSE {-6}
    /\ qhull_tie \in IF \E i, j \in DOMAIN entries :
                            i < j /\ entries[i] = entries[j]
                      THEN {"first", "last"} ELSE {"first"}
    /\ pc = "new"
    /\ error = "none"
    /\ unprocessed_entries = <<>>
    /\ processed_entries = <<>>
    /\ multielement = FALSE
    /\ hs_int = {}
    /\ stable_domains = <<>>
    /\ stable_domain_vertices = NoDomains
    /\ ret = [op |-> "none"]

Next ==
    \/ Construct
    \/ \E pH \in QueryPH, V \in QueryV : FindStableEntry(pH, V)
    \/ \E pH \in QueryPH, V \in QueryV : GetHullEnergy(pH, V)
    \/ \E ref \in EntryRefs, pH \in QueryPH, V \in QueryV :
          GetDecompositionEnergy(ref, pH, V)
    \/ StableEntries
    \/ UnstableEntries
    \/ AllEntries
    \/ UnprocessedEntries

Spec == Init /\ [][Next]_vars

---------------------------------------------------------------------------
(* Properties *)

\* The window's grid points at which the envelope properties are evaluated.
Grid == GridPH \X GridV

\* Normalized energy of processed entry i at (pH, V).
NormE(i, pH, V) ==
    normalized_energy_at_conditions(processed_entries[i], pH, V)

Stable == Range(stable_domains)
Processed == DOMAIN processed_entries

\* C1: get_hull_energy(pH, V) returns the minimum normalized energy over the
\* stable entries: a value <= that of every stable entry and equal to that of
\* one of them.
C1_HullEnergyIsMinimum ==
    ret.op = "get_hull_energy" =>
        /\ ret.status = "ok"
        /\ \A i \in Stable : RLeq(ret.val, NormE(i, ret.pH, ret.V))
        /\ \E i \in Stable : REq(ret.val, NormE(i, ret.pH, ret.V))

\* Entry `ref` determines the hull at (pH, V): it is a stable entry of
\* minimal normalized energy there.
DeterminesHull(ref, pH, V) ==
    /\ ref[1] = "processed"
    /\ ref[2] \in Stable
    /\ \A i \in Stable : RLeq(NormE(ref[2], pH, V), NormE(i, pH, V))

\* C2: get_decomposition_energy(e, pH, V) is >= 0, and 0 when e determines
\* the hull at (pH, V).
C2_DecompositionNonNegative ==
    ret.op = "get_decomposition_energy" =>
        /\ ret.status = "ok"
        /\ ret.val[1] >= 0
        /\ DeterminesHull(ret.entry, ret.pH, ret.V) => ret.val[1] = 0

\* C4: unstable_entries is the complement of stable_entries within
\* all_entries.
C4_UnstableIsComplement ==
    ret.op = "unstable_entries" =>
        /\ Range(ret.val) \cap Stable = {}
        /\ Range(ret.val) \cup Stable = Processed

\* C5: find_stable_entry(pH, V) returns a stable entry of minimal normalized
\* energy at (pH, V), the first such entry of the stable_entries list.
C5_FindStableEntryFirstArgmin ==
    ret.op = "find_stable_entry" =>
        \E k \in DOMAIN stable_domains :
            /\ ret.val = stable_domains[k]
            /\ \A j \in DOMAIN stable_domains :
                   RLeq(NormE(stable_domains[k], ret.pH, ret.V),
                        NormE(stable_domains[j], ret.pH, ret.V))
            /\ \A j \in 1..(k - 1) :
                   RLess(NormE(stable_domains[k], ret.pH, ret.V),
                         NormE(stable_domains[j], ret.pH, ret.V))

\* A call of find_stable_entry at a point where two stable entries tie for
\* the minimum, answered with the one listed first.
C5_Witness ==
    /\ ret.op = "find_stable_entry"
    /\ \E k, j \in DOMAIN stable_domains :
          /\ k < j
          /\ ret.val = stable_domains[k]
          /\ REq(NormE(stable_domains[k], ret.pH, ret.V),
                 NormE(stable_domains[j], ret.pH, ret.V))

\* C6: at every grid point of the window the lowest normalized energy over
\* the stable entries is the lowest over all processed entries.  Stated of the
\* diagram as construction leaves it (no query assigns a diagram variable).
C6_StableIsLowerEnvelope ==
    (pc = "built" /\ ret.op = "__init__") =>
        LET E == [i \in Processed |->
                     [p \in Grid |-> NormE(i, p[1], p[2])]]
        IN \A p \in Grid : \A i \in Processed \ Stable :
               \E k \in Stable : RLeq(E[k][p], E[i][p])

\* A constructed diagram with two stable entries and an unstable one.
C6_Witness ==
    /\ pc = "built"
    /\ Cardinality(Stable) >= 2
    /\ Processed \ Stable # {}

\* C7: the keys of the stable-domain mapping are exactly the entries named
\* by the dual facet of at least one vertex, each with exactly those
\* vertices; the five border half-spaces have vertices and are never keys.
C7_KeysAreAttributedEntries ==
    pc = "built" =>
        LET n == Len(processed_entries)
            Attributed(v) == {r.pt : r \in {q \in hs_int : v \in q.facet}}
        IN /\ Stable = {v \in 1..n : Attributed(v) # {}}
           /\ DOMAIN stable_domain_vertices = Stable
           /\ \A v \in Stable :
                 Range(stable_domain_vertices[v]) = Attributed(v)
           /\ \A v \in (n + 1)..(n + 5) : Attributed(v) # {} /\ v \notin Stable

\* A constructed diagram with a dropped entry and a vertex whose dual facet
\* names border half-spaces only.
C7_Witness ==
    /\ pc = "built"
    /\ \E v \in Processed : v \notin Stable
    /\ \E r \in hs_int : r.facet \cap Processed = {}
    /\ \E r \in hs_int : r.facet \cap Processed # {} /\ r.facet \ Processed # {}

\* Scenario A: a single solid entry with npH = 0 and nPhi = 0.
ScenarioA ==
    /\ Len(entries) = 1
    /\ IsSolid(entries[1])
    /\ npH(entries[1]) = 0
    /\ nPhi(entries[1]) = 0

WindowCorners ==
    {<<RInt(c[1]), RInt(c[2])>> : c \in {PHMin, PHMax} \X {VMin, VMax}}

\* C8: in Scenario A construction succeeds, the entry's vertices are the four
\* window corners and find_stable_entry returns the entry.
C8_ScenarioA ==
    (ScenarioA /\ pc # "new") =>
        /\ pc = "built"
        /\ stable_domains = <<1>>
        /\ Range(stable_domain_vertices[1]) = WindowCorners
        /\ ret.op = "find_stable_entry" => ret.val = 1

\* Scenario B: two solid entries that differ in the sign of npH (and have the
\* same number of non-H/O atoms).
ScenarioB ==
    /\ pc = "built"
    /\ ~multielement
    /\ Len(processed_entries) = 2
    /\ IsSolid(processed_entries[1]) /\ IsSolid(processed_entries[2])
    /\ npH(processed_entries[1]) # 0
    /\ npH(processed_entries[1]) = -npH(processed_entries[2])
    /\ EntryNonHOAtoms(processed_entries[1])
         = EntryNonHOAtoms(processed_entries[2])

\* energy_at_conditions of a solid or ion entry at a vertex (pH, V) of the
\* diagram, whose coordinates are fractions.
EnergyAtVertex(e, pt) ==
    RAdd(RInt(energy(e)),
         RAdd(RMul(RInt(npH(e) * PREFAC), pt[1]),
              RMul(RInt(nPhi(e) * EUnit), pt[2])))

\* C9: in Scenario B the vertices the two stable regions share lie on the
\* line where the entries' energy_at_conditions are equal, every vertex of a
\* region is on its entry's side of that line, and find_stable_entry returns,
\* at a window point, the entry whose energy_at_conditions is strictly lower
\* there.
C9_ScenarioB ==
    ScenarioB =>
        LET e1 == processed_entries[1]
            e2 == processed_entries[2]
        IN /\ Stable = {1, 2} =>
                /\ \A pt \in Range(stable_domain_vertices[1])
                                \cap Range(stable_domain_vertices[2]) :
                       REq(EnergyAtVertex(e1, pt), EnergyAtVertex(e2, pt))
                /\ \A pt \in Range(stable_domain_vertices[1]) :
                       RLeq(EnergyAtVertex(e1, pt), EnergyAtVertex(e2, pt))
                /\ \A pt \in Range(stable_domain_vertices[2]) :
                       RLeq(EnergyAtVertex(e2, pt), EnergyAtVertex(e1, pt))
           /\ ret.op = "find_stable_entry" =>
                LET g1 == energy_at_conditions(e1, ret.pH, ret.V)
                    g2 == energy_at_conditions(e2, ret.pH, ret.V)
                IN /\ g1 < g2 => ret.val = 1
                   /\ g2 < g1 => ret.val = 2

\* Scenario B queried on the side of the boundary where the second entry is
\* lower.
C9_Witness ==
    /\ ScenarioB
    /\ ret.op = "find_stable_entry"
    /\ energy_at_conditions(processed_entries[2], ret.pH, ret.V)
         < energy_at_conditions(processed_entries[1], ret.pH, ret.V)
    /\ ret.val = 2
    /\ Stable = {1, 2}
    /\ Cardinality(Range(stable_domain_vertices[1])
                     \cap Range(stable_domain_vertices[2])) = 2

\* The candidate entries of get_decomposition_energy for the entry named by
\* ref: the entry itself in a single-element diagram or for a MultiEntry,
\* else the generator's MultiEntries that include it and have exactly one
\* Solid component.
Candidates(ref) ==
    IF ~multielement \/ IsMulti(Deref(ref))
    THEN {Deref(ref)}
    ELSE LET gen == generate_multielement_entries(
                        elt_comp, preprocessed_entries, <<Deref(ref)>>)
         IN {gen[k] : k \in {j \in DOMAIN gen :
                Cardinality({m \in DOMAIN gen[j].entry_list :
                                IsSolid(gen[j].entry_list[m])}) = 1}}

\* C3: get_decomposition_energy(entry, pH, V) returns the minimum normalized
\* energy of the candidate entries at (pH, V) minus the minimum normalized
\* energy of the stable entries there.
C3_DecompositionIsMinCandidateMinusHull ==
    ret.op = "get_decomposition_energy" =>
        /\ ret.status = "ok"
        /\ \E c \in Candidates(ret.entry) :
              /\ \A d \in Candidates(ret.entry) :
                    RLeq(normalized_energy_at_conditions(c, ret.pH, ret.V),
                         normalized_energy_at_conditions(d, ret.pH, ret.V))
              /\ \E i \in Stable :
                    /\ \A j \in Stable : RLeq(NormE(i, ret.pH, ret.V),
                                              NormE(j, ret.pH, ret.V))
                    /\ REq(ret.val,
                           RSub(normalized_energy_at_conditions(
                                    c, ret.pH, ret.V),
                                NormE(i, ret.pH, ret.V)))

---------------------------------------------------------------------------
(* A single ion entry whose concentration is reassigned, next to a solid of
   equal standard energy (Scenario C) *)

\* The concentrations assigned are 10^-k for k in 0..MaxConcDigits.
MaxConcDigits == 9

ConcDigits == 0..MaxConcDigits

\* The energy of an entry at concentration one: no concentration term.
standard_energy(e) == energy([e EXCEPT !.concentration = Conc(0, 1)])

\* The compositions of the competing solid.
SolidComps == {Comp(0, 0, 1, 0), Comp(0, 1, 1, 0), Comp(2, 0, 1, 0)}

\* The (ion, solid) pairs: an ion of the pool and a solid whose energy equals
\* the ion's standard energy.
ScenarioCPairs ==
    {<<ion, solid>> :
        ion \in {e \in PoolEntries : IsIon(e)},
        solid \in {PourbaixEntry(RawEntry(FALSE, c, 0, en), DefaultConc) :
                      c \in SolidComps,
                      en \in {-44583, -34583, -15417, -10000, -5000}}}

\* The grid points at which the ion's normalized energy is strictly below
\* the solid's.
WinSet(ion, solid) ==
    {p \in Grid :
        RLess(normalized_energy_at_conditions(ion, p[1], p[2]),
              normalized_energy_at_conditions(solid, p[1], p[2]))}

\* The concentration arguments PourbaixEntry is constructed with: the default
\* and 1e-3.
ConstructorConcs == {DefaultConc, Conc(-3, 1)}

\* PourbaixEntry(e.entry, concentration=c): the entry wrapped by e, wrapped
\* again with another concentration argument.
Rewrap(e, c) ==
    PourbaixEntry(RawEntry(IsIon(e), e.composition, e.charge,
                           e.uncorrected_energy), c)

\* The weights of the MultiEntry made of the two entries.
MultiWeights ==
    {<<RInt(1), RInt(1)>>, <<RInt(1), RInt(2)>>, <<RInt(1), <<1, 2>>>>}

\* The weighted-sum attributes read from the MultiEntry.
MultiItems == {"energy", "npH", "nH2O", "nPhi", "conc_term"}

\* entry.concentration = 10^-k, for the ion entries[1]; ret keeps what the
\* entry's energies were before the assignment.  The MultiEntry's entry_list
\* holds the same object, so the assignment shows there too.
SetConcentration(k) ==
    /\ pc = "entry"
    /\ entries' = [entries EXCEPT ![1].concentration = Conc(-k, 1)]
    /\ processed_entries' =
          [j \in DOMAIN processed_entries |->
              [processed_entries[j] EXCEPT
                  !.entry_list[1].concentration = Conc(-k, 1)]]
    /\ conc_exp' = -k
    /\ ret' = [op |-> "set_concentration",
               old_exp |-> conc_exp,
               old_energy |-> energy(entries[1]),
               old_at_conditions |->
                   [p \in Grid |->
                       energy_at_conditions(entries[1], p[1], p[2])],
               old_wins |-> WinSet(entries[1], entries[2])]
    /\ UNCHANGED <<comp_dict_arg, pc, error, unprocessed_entries,
                   multielement, hs_int, stable_domains,
                   stable_domain_vertices, qhull_tie>>

\* getattr(multi_entry, item) on the MultiEntry made of the two entries.
ReadMultiEntry(item) ==
    /\ pc = "entry"
    /\ ret' = [op |-> "getattr", item |-> item,
               val |-> MultiEntry_attribute(processed_entries[1], item)]
    /\ ReadOnly

InitEntry ==
    /\ \E pair \in {q \in ScenarioCPairs :
                       standard_energy(q[1]) = energy(q[2])} :
          \E c1, c2 \in ConstructorConcs :
             /\ entries = <<Rewrap(pair[1], c1), Rewrap(pair[2], c2)>>
             /\ ret = [op |-> "PourbaixEntry", concentration |-> <<c1, c2>>]
    /\ conc_exp = entries[1].concentration.exp
    /\ \E w \in MultiWeights :
          processed_entries = <<MultiEntry(entries, w)>>
    /\ comp_dict_arg = NoDict
    /\ qhull_tie = "first"
    /\ pc = "entry"
    /\ error = "none"
    /\ unprocessed_entries = <<>>
    /\ multielement = FALSE
    /\ hs_int = {}
    /\ stable_domains = <<>>
    /\ stable_domain_vertices = NoDomains

NextEntry ==
    \/ \E k \in ConcDigits : SetConcentration(k)
    \/ \E item \in MultiItems : ReadMultiEntry(item)

SpecEntry == InitEntry /\ [][NextEntry]_vars

\* The concentration of the ion was just lowered by two orders of magnitude.
LoweredByTwoOrders ==
    /\ pc = "entry"
    /\ ret.op = "set_concentration"
    /\ conc_exp = ret.old_exp - 2

\* C10: lowering an ion's concentration by two orders of magnitude changes
\* its energy, and its energy_at_conditions at every grid point, by exactly
\* 2 * PREFAC downward, and every point where the ion beat the solid of equal
\* standard energy is still won by the ion.
C10_ConcentrationShift ==
    LoweredByTwoOrders =>
        /\ energy(entries[1]) = ret.old_energy - 2 * PREFAC
        /\ \A p \in Grid :
              energy_at_conditions(entries[1], p[1], p[2])
                 = ret.old_at_conditions[p] - 2 * PREFAC
        /\ ret.old_wins \subseteq WinSet(entries[1], entries[2])

\* The ion's concentration lowered from 1e-6 to 1e-8, with a grid point the
\* ion wins only at the lower concentration.
C10_Witness ==
    /\ LoweredByTwoOrders
    /\ ret.old_exp = -6
    /\ WinSet(entries[1], entries[2]) \ ret.old_wins # {}

\* C10 as stated: the energies move upward by 2 * PREFAC and the set of
\* points the ion wins does not grow.
C10_ShiftUpward ==
    LoweredByTwoOrders =>
        /\ energy(entries[1]) = ret.old_energy + 2 * PREFAC
        /\ \A p \in Grid :
              energy_at_conditions(entries[1], p[1], p[2])
                 = ret.old_at_conditions[p] + 2 * PREFAC
        /\ WinSet(entries[1], entries[2]) \subseteq ret.old_wins

---------------------------------------------------------------------------
(* Multi-element generation (Scenario D) *)

\* The entries the constructor hands to the generator: the caller's entries
\* with their concentrations assigned, solids first.
GeneratorPool ==
    LET es == [i \in DOMAIN entries |->
                  AssignConcentration(entries[i], conc_exp)]
    IN SelectSeq(es, IsSolid) \o SelectSeq(es, IsIon)

\* The target of the generator and its number of elements.
Target == Composition(comp_dict(entries, comp_dict_arg))
TargetSize == Cardinality(DOMAIN comp_dict(entries, comp_dict_arg))

\* A combination of pool entries: a set of one to TargetSize positions of the
\* pool, listed in pool order.
Combinations ==
    {S \in SUBSET (DOMAIN GeneratorPool) :
        Cardinality(S) >= 1 /\ Cardinality(S) <= TargetSize}

RECURSIVE InOrder(_)
InOrder(S) ==
    IF S = {} THEN <<>>
    ELSE LET lo == CHOOSE i \in S : \A j \in S : i <= j
         IN <<GeneratorPool[lo]>> \o InOrder(S \ {lo})

\* The balancer's answer for a combination: solids enter by their reduced
\* composition.
BalancedReaction(S) ==
    LET list == InOrder(S)
    IN Reaction([i \in DOMAIN list |->
                    IF IsIon(list[i]) THEN list[i].composition
                    ELSE reduced_composition(list[i].composition)],
                Target)

\* The combination balances to the target and every amount consumed exceeds
\* the threshold of its entry.
Feasible(S) ==
    LET list == InOrder(S)
        rxn == BalancedReaction(S)
    IN /\ rxn.status = "ok"
       /\ \A i \in DOMAIN list :
             RLess(IF IsIon(list[i]) THEN ConcValue(list[i].concentration)
                   ELSE SolidThresh,
                   rxn.coeffs[i])

\* The MultiEntry of a feasible combination: its entries with the amounts
\* divided by the first.
ExpectedMultiEntry(S) ==
    LET rxn == BalancedReaction(S)
    IN MultiEntry(InOrder(S),
                  [i \in DOMAIN rxn.coeffs |->
                      RDiv(rxn.coeffs[i], rxn.coeffs[1])])

\* Construction has run on entries that make a multi-element diagram.
MultiElementConstructed ==
    /\ pc \in {"built", "failed"}
    /\ ret.op = "__init__"
    /\ IonsAreElemental(entries)
    /\ AllSolidOrIon(entries)
    /\ TargetSize > 1

\* C11: the generator returns one MultiEntry for every feasible combination of
\* one to N pool entries and nothing else (an empty list when no combination
\* is feasible); the diagram's processed entries are that list.
C11_GeneratorReturnsFeasibleCombinations ==
    MultiElementConstructed =>
        LET out == generate_multielement_entries(
                       comp_dict(entries, comp_dict_arg), GeneratorPool, <<>>)
            feasible == {S \in Combinations : Feasible(S)}
            values == Range(out) \cup {ExpectedMultiEntry(S) : S \in feasible}
        IN /\ \A v \in values :
                 Cardinality({k \in DOMAIN out : out[k] = v})
                    = Cardinality({S \in feasible :
                                      ExpectedMultiEntry(S) = v})
           /\ (feasible = {}) => (out = <<>> /\ error = "IndexError")
           /\ pc = "built" => processed_entries = out

\* A diagram built from a pool with a feasible pair, a feasible single entry
\* and an infeasible combination.
C11_Witness ==
    /\ MultiElementConstructed
    /\ pc = "built"
    /\ \E S \in Combinations : Feasible(S) /\ Cardinality(S) = 2
    /\ \E S \in Combinations : Feasible(S) /\ Cardinality(S) = 1
    /\ \E S \in Combinations : ~Feasible(S)

\* Scenario D's unbalanceable input: no combination is feasible and the
\* generator returns the empty list.
C11_WitnessEmpty ==
    /\ MultiElementConstructed
    /\ Cardinality(DOMAIN GeneratorPool) = 2
    /\ \A S \in Combinations : ~Feasible(S)
    /\ error = "IndexError"

\* The combination reaches the balancer, which signals ReactionError.
Unbalanceable(S) ==
    /\ CompositionLess(Target, SumComposition(InOrder(S)))
    /\ BalancedReaction(S).status = "ReactionError"

\* C15: when the balancer signals ReactionError for a combination, no
\* ReactionError leaves the constructor and the MultiEntry of every feasible
\* combination is still among the processed entries.
C15_InfeasibleCombinationIsDropped ==
    (MultiElementConstructed /\ \E S \in Combinations : Unbalanceable(S)) =>
        /\ error # "ReactionError"
        /\ \A S \in Combinations :
              Feasible(S) =>
                 /\ error # "IndexError"
                 /\ pc = "built" =>
                       ExpectedMultiEntry(S) \in Range(processed_entries)

\* A diagram built although the first combination handed to the balancer
\* was unbalanceable: a later combination is feasible.
C15_Witness ==
    /\ MultiElementConstructed
    /\ pc = "built"
    /\ \E S, T \in Combinations :
          /\ Unbalanceable(S)
          /\ Feasible(T)
          /\ Cardinality(S) < Cardinality(T)
          /\ ExpectedMultiEntry(T) \in Range(processed_entries)

---------------------------------------------------------------------------
(* Input validation of the constructor *)

\* Some input entry has a phase type other than Solid and Ion.
HasForeignPhase ==
    \E i \in DOMAIN entries : entries[i].phase_type \notin {"Solid", "Ion"}

\* Some input Ion holds more than one element besides H and O.
HasMultiElementIon ==
    \E i \in DOMAIN entries :
        /\ entries[i].phase_type = "Ion"
        /\ entries[i].composition.A > 0
        /\ entries[i].composition.B > 0

\* No diagram object exists: none of the instance attributes was assigned.
NoDiagram ==
    /\ pc = "failed"
    /\ unprocessed_entries = <<>>
    /\ processed_entries = <<>>
    /\ stable_domains = <<>>

\* C13: construction from entries of which one has a phase type that is
\* neither Solid nor Ion raises ValueError and yields no diagram.
C13_ForeignPhaseRaisesValueError ==
    (pc # "new" /\ HasForeignPhase) => (error = "ValueError" /\ NoDiagram)

\* Construction was refused by the phase-type check itself: every ion of the
\* input is elemental, so the ion loop raised nothing.
C13_Witness ==
    /\ ret.op = "__init__"
    /\ HasForeignPhase
    /\ ~HasMultiElementIon
    /\ \E i \in DOMAIN entries : entries[i].phase_type = "Ion"
    /\ error = "ValueError"

\* C14: construction raises ValueError when an Ion's composition without H
\* and O spans more than one element, and raises no ValueError when every
\* Ion spans exactly one and every entry is a Solid or an Ion.
C14_MultiElementIonRaisesValueError ==
    pc # "new" =>
        /\ HasMultiElementIon => (error = "ValueError" /\ NoDiagram)
        /\ (~HasMultiElementIon /\ ~HasForeignPhase) => error # "ValueError"

\* Construction was refused for a two-element ion among entries that are all
\* Solids and Ions, next to an accepted one-element ion.
C14_Witness ==
    /\ ret.op = "__init__"
    /\ HasMultiElementIon
    /\ ~HasForeignPhase
    /\ \E i \in DOMAIN entries :
          /\ entries[i].phase_type = "Ion"
          /\ entries[i].composition.B = 0
    /\ error = "ValueError"

---------------------------------------------------------------------------
(* Entries that touch the lower envelope only on the window's boundary *)

\* The entries handed to get_pourbaix_domains.
DomainEntries ==
    IF TargetSize > 1
    THEN generate_multielement_entries(comp_dict(entries, comp_dict_arg),
                                       GeneratorPool, <<>>)
    ELSE GeneratorPool

\* The plane of entry i meets the intersection, and all the vertices of the
\* intersection on it lie on one side of the window: a corner, or a stretch
\* of one side.
TouchesOnlyAtBoundary(es, i) ==
    LET rows == IntRows(hyperplanes(es)) \o SideRows
        on == {P \in TopVertices(rows) : Slack(rows[i], P) = 0}
    IN /\ on # {}
       /\ \E side \in (Len(es) + 1)..(Len(es) + 4) :
             \A P \in on : Slack(rows[side], P) = 0

\* Construction got as far as the half-space intersection and its seed was
\* accepted.
SeedAccepted ==
    /\ ret.op = "__init__"
    /\ IonsAreElemental(entries)
    /\ AllSolidOrIon(entries)
    /\ DomainEntries # <<>>
    /\ InteriorPointOk(hyperplanes(DomainEntries))

---------------------------------------------------------------------------
(* Constructing a second diagram from the same entry list *)

\* What identifies a processed entry across diagrams: its place in the
\* processed list and the wrapped entries (and weights) it is made of; the
\* mutable concentration is no part of it.
Identity(i, e) ==
    LET Wrapped(x) == [x EXCEPT !.concentration = DefaultConc]
    IN <<i, IF IsMulti(e)
            THEN [e EXCEPT !.entry_list =
                              [j \in DOMAIN e.entry_list |->
                                  Wrapped(e.entry_list[j])]]
            ELSE Wrapped(e)>>

StableIdentities(processed, keys) ==
    {Identity(i, processed[i]) : i \in Range(keys)}

\* second = PourbaixDiagram(entries, comp_dict, conc_dict), with the same
\* arguments, after the first call returned or raised.
ConstructAgain ==
    /\ pc \in {"built", "failed"}
    /\ ret.op = "__init__"
    /\ \E d \in {PourbaixDiagram(entries, comp_dict_arg, conc_exp,
                                   qhull_tie)} :
          ret' = [op |-> "PourbaixDiagram",
                  status |-> d.status,
                  stable |-> IF d.status = "ok"
                             THEN StableIdentities(d.processed, d.keys)
                             ELSE {}]
    /\ ReadOnly

NextTwice == Construct \/ ConstructAgain

SpecTwice == Init /\ [][NextTwice]_vars

---------------------------------------------------------------------------
(* Queries are read-only *)

\* The state of a diagram: its attributes, the configuration it was built
\* with and the entries it holds, concentrations included.
diagram_state ==
    <<unprocessed_entries, processed_entries, multielement, stable_domains,
      stable_domain_vertices, hs_int, comp_dict_arg, conc_exp, entries>>

\* The step repeats the call that produced ret: same query, same arguments.
SameQuery ==
    /\ ret'.op = ret.op
    /\ "pH" \in DOMAIN ret => (ret'.pH = ret.pH /\ ret'.V = ret.V)
    /\ "entry" \in DOMAIN ret => ret'.entry = ret.entry

\* C18: on a constructed diagram every query leaves the diagram's state as it
\* was, and a query repeated with the same arguments gives the same result
\* (the same value, or the same exception).
C18_QueriesAreReadOnly ==
    [][pc = "built" =>
          /\ diagram_state' = diagram_state
          /\ pc' = "built"
          /\ SameQuery => ret' = ret]_vars

\* A multi-element diagram after get_decomposition_energy was called with an
\* unprocessed entry, the query that runs the generator again.
C18_Witness ==
    /\ pc = "built"
    /\ multielement
    /\ ret.op = "get_decomposition_energy"
    /\ ~IsMulti(Deref(ret.entry))
    /\ Len(processed_entries) > 1

---------------------------------------------------------------------------
(* Concentrations assigned during construction *)

\* conc_dict[element] * normalization_factor for an Ion with one element
\* besides H and O, 1 for a Solid.
ExpectedConcentration(e) ==
    IF e.phase_type = "Ion"
    THEN [exp |-> conc_exp, div |-> e.composition.A + e.composition.B]
    ELSE [exp |-> 0, div |-> 1]

\* A processed entry with the expected concentration in place of the stored
\* one, in each of its components.
WithExpectedConcentration(e) ==
    LET Set(x) == [x EXCEPT !.concentration = ExpectedConcentration(x)]
    IN IF IsMulti(e)
       THEN [e EXCEPT !.entry_list =
                         [j \in DOMAIN e.entry_list |-> Set(e.entry_list[j])]]
       ELSE Set(e)

\* C19: after construction every Ion's concentration is conc_dict[element]
\* times its normalization factor and every Solid's is 1, and the stable
\* entries are the lower envelope of the energies at these concentrations.
C19_ConcentrationsAssigned ==
    (pc = "built" /\ ret.op = "__init__") =>
        /\ Len(unprocessed_entries) = Len(entries)
        /\ \A i \in DOMAIN entries :
              unprocessed_entries[i] =
                 [entries[i] EXCEPT
                     !.concentration = ExpectedConcentration(entries[i])]
        /\ LET E == [i \in Processed |->
                        [p \in Grid |->
                            normalized_energy_at_conditions(
                                WithExpectedConcentration(
                                    processed_entries[i]), p[1], p[2])]]
           IN \A p \in Grid : \A i \in Processed \ Stable :
                  \E k \in Stable : RLeq(E[k][p], E[i][p])

\* A diagram built for conc_dict 1e-8 in which a stable ion with two atoms
\* of its element stands next to a solid.
C19_Witness ==
    /\ pc = "built"
    /\ conc_exp = -8
    /\ \E i \in DOMAIN unprocessed_entries :
          /\ unprocessed_entries[i].phase_type = "Ion"
          /\ unprocessed_entries[i].concentration = [exp |-> -8, div |-> 2]
    /\ \E i \in DOMAIN unprocessed_entries :
          /\ unprocessed_entries[i].phase_type = "Solid"
          /\ unprocessed_entries[i].concentration = [exp |-> 0, div |-> 1]
    /\ \E k \in Stable :
          /\ ~IsMulti(processed_entries[k])
          /\ processed_entries[k].concentration = [exp |-> -8, div |-> 2]
    /\ Processed \ Stable # {}

---------------------------------------------------------------------------
(* Attributes of a MultiEntry and of its components *)

\* w1 * a1 + w2 * a2 for the two components of the MultiEntry.
WeightedSum(Item(_)) ==
    LET w == processed_entries[1].weights
    IN RAdd(RMul(RInt(Item(entries[1])), w[1]),
            RMul(RInt(Item(entries[2])), w[2]))

\* C12: each of energy, npH, nH2O, nPhi and conc_term read from a MultiEntry
\* is the sum of weight times the component's attribute as the component is
\* now, also after the concentration of a component was reassigned.
C12_MultiEntryWeightedSums ==
    (pc = "entry" /\ ret.op = "getattr") =>
        ret.val = (CASE ret.item = "energy" -> WeightedSum(energy)
                     [] ret.item = "npH" -> WeightedSum(npH)
                     [] ret.item = "nH2O" -> WeightedSum(nH2O)
                     [] ret.item = "nPhi" -> WeightedSum(nPhi)
                     [] ret.item = "conc_term" -> WeightedSum(conc_term))

\* The energy of a MultiEntry with unequal weights read after its ion was
\* given the concentration 1e-8, which no constructor argument gave it.
C12_Witness ==
    /\ pc = "entry"
    /\ ret.op = "getattr"
    /\ ret.item = "energy"
    /\ entries[1].concentration = Conc(-8, 1)
    /\ processed_entries[1].weights[2] # RInt(1)
    /\ ret.val # WeightedSum(standard_energy)

---------------------------------------------------------------------------
(* Derived quantities of an entry follow its concentration *)

\* C20: whatever was assigned to entry.concentration, conc_term is
\* PREFAC * log10(concentration), energy is uncorrected_energy + conc_term
\* - MU_H2O * nH2O and energy_at_conditions adds npH * PREFAC * pH + nPhi * V;
\* a Solid has concentration 1 and conc_term 0 whatever concentration
\* argument it was constructed with.
C20_DerivedQuantitiesCurrent ==
    pc = "entry" =>
        /\ \A i \in DOMAIN entries :
              LET e == entries[i]
                  c == e.composition
                  term == PREFAC * e.concentration.exp
                  en == e.uncorrected_energy + term - MU_H2O * c.O
              IN /\ conc_term(e) = term
                 /\ energy(e) = en
                 /\ \A p \in Grid :
                       energy_at_conditions(e, p[1], p[2])
                          = en + (c.H - 2 * c.O) * PREFAC * p[1]
                               + (c.H - 2 * c.O - e.charge) * p[2] * EUnit
        /\ entries[1].concentration.exp = conc_exp
        /\ entries[2].phase_type = "Solid"
        /\ entries[2].concentration = Conc(0, 1)
        /\ conc_term(entries[2]) = 0
        /\ ret.op = "PourbaixEntry" =>
              entries[1].concentration = ret.concentration[1]

\* The ion's concentration was just changed, next to a solid.
C20_Witness ==
    /\ pc = "entry"
    /\ ret.op = "set_concentration"
    /\ ret.old_exp # conc_exp
    /\ ret.old_energy # energy(entries[1])
    /\ conc_term(entries[1]) # 0
    /\ entries[2].phase_type = "Solid"

\* A solid constructed with the concentration argument 1e-3.
C20_WitnessSolidArgument ==
    /\ pc = "entry"
    /\ ret.op = "PourbaixEntry"
    /\ ret.concentration[2] = Conc(-3, 1)
    /\ entries[2].concentration = Conc(0, 1)

---------------------------------------------------------------------------
(* The caller's entries *)

\* C28: no step of a diagram's life, construction or query, changes the
\* entry list the caller passed: every entry has the concentration,
\* composition and energy it had before.
C28_CallerEntriesUnchanged == [][entries' = entries]_vars

\* A query has been answered by a diagram whose own copy of an ion carries
\* a concentration the caller's ion does not.
C28_Witness ==
    /\ pc = "built"
    /\ ret.op \notin {"none", "__init__"}
    /\ \E i \in DOMAIN entries :
          /\ IsIon(entries[i])
          /\ unprocessed_entries[i].concentration # entries[i].concentration
          /\ entries[i].concentration = DefaultConc

---------------------------------------------------------------------------
(* Single-element and multi-element construction *)

\* The entries of the MultiEntry m balance to the target T, solids by their
\* reduced composition, and its weights are the balanced amounts divided
\* by the first.
BalancesTo(m, T) ==
    LET list == m.entry_list
        rxn == Reaction([i \in DOMAIN list |->
                            IF IsIon(list[i]) THEN list[i].composition
                            ELSE reduced_composition(list[i].composition)],
                        T)
    IN /\ rxn.status = "ok"
       /\ \A i \in DOMAIN list :
             /\ RLess(RInt(0), rxn.coeffs[i])
             /\ REq(m.weights[i], RDiv(rxn.coeffs[i], rxn.coeffs[1]))

\* The individual entries of the diagram, solids first.
IndividualEntries ==
    SelectSeq(unprocessed_entries, IsSolid)
        \o SelectSeq(unprocessed_entries, IsIon)

\* Every processed entry is a MultiEntry that balances to the target.
OverMultiEntries ==
    /\ multielement
    /\ \A i \in DOMAIN processed_entries :
          /\ IsMulti(processed_entries[i])
          /\ BalancesTo(processed_entries[i], Target)

\* The processed entries are the individual entries.
OverIndividualEntries ==
    /\ ~multielement
    /\ processed_entries = IndividualEntries

C23_WitnessSingle ==
    /\ pc = "built"
    /\ comp_dict_arg = SingleElement
    /\ Cardinality(pbx_elts(entries)) = 2
    /\ Len(processed_entries) = 2

---------------------------------------------------------------------------
(* The floor of the half-space intersection *)

\* The floor plane g = 2*g_max is strictly below the plane of every row of
\* hp at the four corners of the window, hence everywhere in it.
FloorBelowPlanes(hp) ==
    LET floor == RMul(RInt(2), g_max(hp))
    IN \A i \in DOMAIN hp :
          \A c \in {PHMin, PHMax} \X {VMin, VMax} :
             RowValue(hp[i], PREFAC * c[1], EUnit * c[2], floor)[1] < 0

\* No intersection on the floor is attributed to an entry.
NoDomainVertexOnFloor ==
    LET n == Len(processed_entries)
    IN \A r \in hs_int : (n + 5) \in r.facet => r.facet \cap (1..n) = {}

\* C27: whatever entries reach the domain constructor, the floor lies
\* strictly below every entry's plane over the window, the seed is strictly
\* inside every half-space, and no vertex of a domain lies on the floor.
C27_FloorNeverActive ==
    (/\ pc # "new"
     /\ IonsAreElemental(entries)
     /\ AllSolidOrIon(entries)
     /\ DomainEntries # <<>>) =>
        /\ FloorBelowPlanes(hyperplanes(DomainEntries))
        /\ InteriorPointOk(hyperplanes(DomainEntries))
        /\ pc = "built" => NoDomainVertexOnFloor

---------------------------------------------------------------------------
(* The Multi-Entry Generator on its own *)

\* The longest candidate pool handed to the generator.
MaxPool == 3

\* The wrapped entries of a candidate pool.  A2(s) is a solid whose
\* composition is not reduced (a cell of two atoms).
GeneratorRawPool ==
    << RawEntry(FALSE, Comp(0, 0, 1, 0), 0, 0),         \* A(s)
       RawEntry(FALSE, Comp(0, 0, 0, 1), 0, 0),         \* B(s)
       RawEntry(FALSE, Comp(0, 0, 1, 1), 0, -8000),     \* AB(s)
       RawEntry(FALSE, Comp(0, 0, 2, 0), 0, 0),         \* A2(s)
       RawEntry(FALSE, Comp(0, 1, 1, 0), 0, -30000),    \* AO(s)
       RawEntry(TRUE, Comp(0, 0, 1, 0), 2, -10000),     \* A[2+]
       RawEntry(TRUE, Comp(0, 0, 0, 1), 1, -5000) >>    \* B[+]

\* The entries as the constructor leaves them in _preprocessed_entries:
\* wrapped, the ions with the default conc_dict value assigned.
GeneratorEntries ==
    {AssignConcentration(PourbaixEntry(GeneratorRawPool[i], DefaultConc), -6) :
        i \in DOMAIN GeneratorRawPool}

\* The targets (self._elt_comp) the generator is run for.
EqualSplit == [el \in {"A", "B"} |-> <<1, 2>>]
ThousandthSplit ==
    [el \in {"A", "B"} |-> IF el = "A" THEN <<1, 1000>> ELSE <<999, 1000>>]
GeneratorTargets == {EqualSplit, UnequalSplit, ThousandthSplit, SingleElement}

\* A combination as the positions its entries have in the pool es, and the
\* entries at those positions.
EntriesAt(es, x) == [m \in DOMAIN x |-> es[x[m]]]

\* The combinations _generate_multielement_entries considers, as positions
\* of the pool 1..n: forced_include (the pool's entry at position f, or
\* nothing when f = 0) followed by each of
\* itertools.combinations(entries, j + 1 - len(forced_include)), j in
\* range(N).
considered_combos(N, n, f) ==
    LET forced == IF f = 0 THEN <<>> ELSE <<f>>
        idx == index_combos(N, n, Len(forced))
    IN [k \in DOMAIN idx |-> forced \o idx[k]]

\* The combinations that pass the filter total_comp < MultiEntry(x).composition
\* and are handed to process_multientry.
handed_combos(target, es, f) ==
    SelectSeq(considered_combos(Cardinality(DOMAIN target), Len(es), f),
              LAMBDA x : CompositionLess(Composition(target),
                                         SumComposition(EntriesAt(es, x))))

\* self._generate_multielement_entries(entries, forced_include): f = 0 is
\* the constructor's call, f > 0 the call of get_decomposition_energy for
\* the diagram's entry at position f of _preprocessed_entries.
Generate(f) ==
    /\ pc = "generator"
    /\ ret' = [op |-> "_generate_multielement_entries",
               forced |-> f,
               considered |->
                   considered_combos(Cardinality(DOMAIN comp_dict_arg),
                                     Len(entries), f),
               handed |-> handed_combos(comp_dict_arg, entries, f),
               val |-> generate_multielement_entries(
                           comp_dict_arg, entries,
                           IF f = 0 THEN <<>> ELSE <<entries[f]>>)]
    /\ UNCHANGED <<entries, comp_dict_arg, conc_exp, pc, error,
                   unprocessed_entries, processed_entries, multielement,
                   hs_int, stable_domains, stable_domain_vertices, qhull_tie>>

\* MultiEntry.process_multientry(entry_combo, total_comp) for the k-th
\* combination the generator hands over.
ProcessMultientry(f, k) ==
    /\ pc = "generator"
    /\ k \in DOMAIN handed_combos(comp_dict_arg, entries, f)
    /\ \E x \in {handed_combos(comp_dict_arg, entries, f)[k]} :
          ret' = [op |-> "process_multientry",
                  entry_list |-> EntriesAt(entries, x),
                  val |-> process_multientry(EntriesAt(entries, x),
                                             Composition(comp_dict_arg))]
    /\ UNCHANGED <<entries, comp_dict_arg, conc_exp, pc, error,
                   unprocessed_entries, processed_entries, multielement,
                   hs_int, stable_domains, stable_domain_vertices, qhull_tie>>

InitGenerator ==
    /\ entries \in UNION {[1..k -> GeneratorEntries] : k \in 1..MaxPool}
    /\ comp_dict_arg \in GeneratorTargets
    /\ conc_exp = -6
    /\ qhull_tie = "first"
    /\ pc = "generator"
    /\ error = "none"
    /\ unprocessed_entries = <<>>
    /\ processed_entries = <<>>
    /\ multielement = FALSE
    /\ hs_int = {}
    /\ stable_domains = <<>>
    /\ stable_domain_vertices = NoDomains
    /\ ret = [op |-> "none"]

NextGenerator ==
    \/ \E f \in 0..Len(entries) : Generate(f)
    \/ \E f \in 0..Len(entries) :
          \E k \in DOMAIN handed_combos(comp_dict_arg, entries, f) :
             ProcessMultientry(f, k)

SpecGenerator == InitGenerator /\ [][NextGenerator]_vars

\* The threshold of an entry: its concentration for an ion, 1e-3 for a solid.
Threshold(e) == IF IsIon(e) THEN ConcValue(e.concentration) ELSE SolidThresh

\* The balancer's answer for the entry list of the last process_multientry.
LastReaction ==
    Reaction([i \in DOMAIN ret.entry_list |->
                 IF IsIon(ret.entry_list[i]) THEN ret.entry_list[i].composition
                 ELSE reduced_composition(ret.entry_list[i].composition)],
             Composition(comp_dict_arg))

\* C21: process_multientry returns a MultiEntry only if the reaction balances
\* and the magnitude of every entry's coefficient exceeds the entry's
\* threshold; a balanced combination with a coefficient whose magnitude is
\* at or below the threshold yields None.
C21_AcceptedOnlyAboveThreshold ==
    ret.op = "process_multientry" =>
        /\ ret.val # None =>
              /\ LastReaction.status = "ok"
              /\ \A i \in DOMAIN ret.entry_list :
                    RLess(Threshold(ret.entry_list[i]),
                          RAbs(LastReaction.coeffs[i]))
        /\ (/\ LastReaction.status = "ok"
            /\ \E i \in DOMAIN ret.entry_list :
                  RLeq(RAbs(LastReaction.coeffs[i]),
                       Threshold(ret.entry_list[i]))) => ret.val = None

\* A combination of a solid and an ion is accepted.
C21_Witness ==
    /\ ret.op = "process_multientry"
    /\ ret.val # None
    /\ Len(ret.entry_list) = 2
    /\ IsSolid(ret.entry_list[1])
    /\ IsIon(ret.entry_list[2])

\* A balanced combination is rejected for a solid whose coefficient is
\* exactly the threshold.
C21_WitnessAtThreshold ==
    /\ ret.op = "process_multientry"
    /\ ret.val = None
    /\ LastReaction.status = "ok"
    /\ \A i \in DOMAIN ret.entry_list : LastReaction.coeffs[i][1] > 0
    /\ \E i \in DOMAIN ret.entry_list :
          REq(LastReaction.coeffs[i], Threshold(ret.entry_list[i]))

\* The sequence of the positions in S, ascending.
RECURSIVE Ascending(_)
Ascending(S) ==
    IF S = {} THEN <<>>
    ELSE LET lo == CHOOSE i \in S : \A j \in S : i <= j
         IN <<lo>> \o Ascending(S \ {lo})

C22_WitnessUnforced ==
    /\ ret.op = "_generate_multielement_entries"
    /\ ret.forced = 0
    /\ Cardinality(DOMAIN comp_dict_arg) = 2
    /\ Len(ret.considered) = 6

\* C29: no combination handed to process_multientry names the same entry of
\* the pool twice, also when the forced entry is a member of the pool.
C29_NoEntryTwice ==
    ret.op = "_generate_multielement_entries" =>
        \A k \in DOMAIN ret.handed :
            \A i, j \in DOMAIN ret.handed[k] :
                i # j => ret.handed[k][i] # ret.handed[k][j]

\* The non-H/O part of a MultiEntry's weighted composition is a positive
\* multiple of the target T.
MatchesTarget(m, T) ==
    LET c == WeightedComposition(m)
    IN /\ \A el \in NonHO : ~RLess(c[el], RInt(0))
       /\ \E el \in NonHO : RLess(RInt(0), c[el])
       /\ \A e1, e2 \in NonHO :
             REq(RMul(c[e1], T[e2]), RMul(c[e2], T[e1]))

\* C30: every MultiEntry process_multientry returns has positive weights,
\* the first of them 1, and a weighted composition whose non-H/O part is a
\* positive multiple of the target.
C30_WeightsAndComposition ==
    (ret.op = "process_multientry" /\ ret.val # None) =>
        /\ \A i \in DOMAIN ret.val.weights :
              RLess(RInt(0), ret.val.weights[i])
        /\ REq(ret.val.weights[1], RInt(1))
        /\ MatchesTarget(ret.val, Composition(comp_dict_arg))

---------------------------------------------------------------------------
(* The order of the vertices of a domain *)

\* The sign of (q - p) x (r - p), for points in whole coordinates.
Turn(p, q, r) == CmpProd(q[1] - p[1], r[2] - p[2], q[2] - p[2], r[1] - p[1])

\* The points of S are the corners of a convex polygon: no three on a line
\* and none inside a triangle of three others.
ConvexPosition(S) ==
    /\ \A p, q, r \in S :
          (p # q /\ q # r /\ p # r) => Turn(p, q, r) # 0
    /\ \A p, q, r, x \in S :
          Cardinality({p, q, r, x}) = 4 =>
             ~(/\ Turn(p, q, x) = Turn(q, r, x)
               /\ Turn(q, r, x) = Turn(r, p, x))

\* The vertices of a domain in whole coordinates, each axis multiplied by
\* the least common denominator of the vertices' coordinates on it.
WholeVertices(a) ==
    LET Lx == LCMSet({a[i][1][2] : i \in DOMAIN a})
        Ly == LCMSet({a[i][2][2] : i \in DOMAIN a})
    IN [i \in DOMAIN a |->
           <<a[i][1][1] * (Lx \div a[i][1][2]),
             a[i][2][1] * (Ly \div a[i][2][2])>>]

\* The sequence a goes once around the convex polygon of its points: every
\* two consecutive points (the last and the first included) are the ends of
\* an edge, all edges taken in one rotational direction.
IsBoundaryTraversal(a) ==
    LET n == Len(a)
        Succ(i) == IF i = n THEN 1 ELSE i + 1
    IN \E s \in {-1, 1} :
          \A i \in 1..n : \A k \in 1..n :
             (k # i /\ k # Succ(i)) => Turn(a[i], a[Succ(i)], a[k]) = s

\* The stable entries whose vertices are the corners of a convex polygon.
PolygonDomains ==
    {v \in DOMAIN stable_domain_vertices :
        /\ Len(stable_domain_vertices[v]) >= 3
        /\ ConvexPosition(Range(WholeVertices(stable_domain_vertices[v])))}

\* C25: the ordered vertices of every stable entry go once around a convex
\* polygon, consecutive vertices being adjacent on the hull and all steps
\* turning the same way.
C25_VerticesTraverseBoundary ==
    pc = "built" =>
        \A v \in PolygonDomains :
            IsBoundaryTraversal(WholeVertices(stable_domain_vertices[v]))

\* The vertices of an ordered domain relative to their centroid, as the
\* sort sees them.
Centered(a) == Range(points_centered(WholeVertices(a)))

\* C26: on the centred vertices of a domain the comparator is a total order:
\* antisymmetric, transitive, and zero only for equal points.
C26_ComparatorIsTotalOrder ==
    pc = "built" =>
        \A v \in PolygonDomains :
            LET P == Centered(stable_domain_vertices[v])
            IN /\ \A x, y \in P : IsLT(x, y) => ~IsLT(y, x)
               /\ \A x, y, z \in P : (IsLT(x, y) /\ IsLT(y, z)) => IsLT(x, z)
               /\ \A x, y \in P : point_comparator(x, y) = 0 => x = y

---------------------------------------------------------------------------
(* The constructor with filter_solids=True *)

\* What PhaseDiagram reads of an entry: its composition and its energy.
PDItem(e) == [composition |-> e.composition, energy |-> energy(e)]

\* entries_HO = [ComputedEntry('H', 0), ComputedEntry('O', 2.46)]
entries_HO ==
    << [composition |-> Comp(1, 0, 0, 0), energy |-> 0],
       [composition |-> Comp(0, 1, 0, 0), energy |-> 24600] >>

\* An entry's amounts of H, O and A.
AtomVector(x) == <<x.composition.H, x.composition.O, x.composition.A>>

\* Entry t of the phase diagram's entries pd can be made of three others
\* among S with independent compositions, at an energy below its own
\* (strictly, or at most its own).
Below(pd, t, S, strictly) ==
    \E i, j, k \in S \ {t} :
        /\ i < j /\ j < k
        /\ LET ci == AtomVector(pd[i])
               cj == AtomVector(pd[j])
               ck == AtomVector(pd[k])
               ct == AtomVector(pd[t])
               D == Det3(ci, cj, ck)
               sg == SignOf(D)
               wi == sg * Det3(ct, cj, ck)
               wj == sg * Det3(ci, ct, ck)
               wk == sg * Det3(ci, cj, ct)
               made == wi * pd[i].energy + wj * pd[j].energy
                         + wk * pd[k].energy
           IN /\ D # 0
              /\ wi >= 0 /\ wj >= 0 /\ wk >= 0
              /\ IF strictly THEN made < sg * D * pd[t].energy
                 ELSE made <= sg * D * pd[t].energy

\* PhaseDiagram(pd).stable_entries: the entries on the lower hull of the
\* energy over the compositions.  Of entries that tie (equal entries, or an
\* entry exactly on a facet spanned by others) the hull may name any
\* selection that still spans it: every set K such that the entries left
\* out are on or above the hull of K and no entry of K is above the hull of
\* the rest of K.
stable_entry_sets(pd) ==
    {K \in SUBSET DOMAIN pd :
        /\ \A t \in DOMAIN pd \ K : Below(pd, t, K, FALSE)
        /\ \A t \in K : ~Below(pd, t, K \ {t}, TRUE)}

\* The orders list(set(...)) can give the entries at the positions K.
ListsOf(es, K) ==
    {[n \in 1..Cardinality(K) |-> es[f[n]]] :
        f \in {g \in [1..Cardinality(K) -> K] :
                 \A a, b \in 1..Cardinality(K) : a # b => g[a] # g[b]}}

\* Mutant: every solid is kept.
filter_solids_keep_all(solid_entries) == {solid_entries}

\* Lines 424-428: the values solid_entries can have after
\*   solid_pd = PhaseDiagram(solid_entries + entries_HO)
\*   solid_entries = list(set(solid_pd.stable_entries) - set(entries_HO))
filter_solids(solid_entries) ==
    LET n == Len(solid_entries)
        pd == [i \in 1..n |-> PDItem(solid_entries[i])] \o entries_HO
    IN UNION {ListsOf(solid_entries, K \ {n + 1, n + 2}) :
                 K \in stable_entry_sets(pd)}

\* PourbaixDiagram.__init__(entries, comp_dict, conc_dict,
\* filter_solids=True): the exception raised, or the attributes the
\* constructor can assign.
PourbaixDiagram_filter_solids(es_in, cd_arg, k, tie) ==
    LET cd == comp_dict(es_in, cd_arg)
    IN IF ~IonsAreElemental(es_in) THEN {[status |-> "ValueError"]}
       ELSE IF ~AllSolidOrIon(es_in) THEN {[status |-> "ValueError"]}
       ELSE LET es == [i \in DOMAIN es_in |->
                          AssignConcentration(es_in[i], k)]
            IN {DiagramOver(es, cd, solid_entries, SelectSeq(es, IsIon), tie) :
                   solid_entries \in filter_solids(SelectSeq(es, IsSolid))}

\* The entries a caller draws from when filtering: the pool's ions and its
\* solids of A, H and O.
FilterEntries ==
    {e \in PoolEntries :
        \/ IsIon(e)
        \/ IsSolid(e) /\ e.composition.B = 0}

IsElementalA(e) ==
    IsSolid(e) /\ e.composition.H = 0 /\ e.composition.O = 0
               /\ e.composition.A > 0

\* A caller's entry list for a filtered diagram: a phase diagram needs an
\* entry for each element itself, so that with a solid there is a solid A.
InitFilter ==
    /\ entries \in UNION {[1..k -> FilterEntries] : k \in 0..MaxEntries}
    /\ (\E i \in DOMAIN entries : IsSolid(entries[i]))
          => \E i \in DOMAIN entries : IsElementalA(entries[i])
    /\ comp_dict_arg = NoDict
    /\ conc_exp = -6
    /\ qhull_tie = "first"
    /\ pc = "new"
    /\ error = "none"
    /\ unprocessed_entries = <<>>
    /\ processed_entries = <<>>
    /\ multielement = FALSE
    /\ hs_int = {}
    /\ stable_domains = <<>>
    /\ stable_domain_vertices = NoDomains
    /\ ret = [op |-> "none"]

\* diagram = PourbaixDiagram(entries, filter_solids=True)
ConstructFiltered ==
    /\ pc = "new"
    /\ \E d \in PourbaixDiagram_filter_solids(entries, comp_dict_arg,
                                               conc_exp, qhull_tie) :
          IF d.status # "ok"
          THEN /\ Fail(d.status)
               /\ ret' = [op |-> "__init__"]
          ELSE /\ pc' = "built"
               /\ error' = "none"
               /\ unprocessed_entries' = d.unprocessed
               /\ processed_entries' = d.processed
               /\ multielement' = d.multi
               /\ hs_int' = d.hs_int
               /\ stable_domains' = d.keys
               /\ stable_domain_vertices' = d.vertices
               /\ ret' = [op |-> "__init__", preprocessed |-> d.preprocessed]
    /\ entries' = CallerEntries(entries, conc_exp)
    /\ UNCHANGED <<comp_dict_arg, conc_exp, qhull_tie>>

NextFilter == ConstructFiltered

SpecFilter == InitFilter /\ [][NextFilter]_vars

\* The solids the caller passed, the phase diagram's entries made of them,
\* and the positions of the solids in it.
InputSolids == SelectSeq(unprocessed_entries, IsSolid)
InputPD == [i \in DOMAIN InputSolids |-> PDItem(InputSolids[i])] \o entries_HO

\* Solid i is above the hull of the other entries.
Unstable(i) == Below(InputPD, i, DOMAIN InputPD, TRUE)

\* Solid i is a corner of the hull: the entries that differ from it do not
\* reach its energy.
HullCorner(i) ==
    ~Below(InputPD, i, {j \in DOMAIN InputPD : InputPD[j] # InputPD[i]}, FALSE)

\* The entries that are part of a processed entry.
Constituents ==
    UNION {IF IsMulti(processed_entries[i])
           THEN Range(processed_entries[i].entry_list)
           ELSE {processed_entries[i]} : i \in DOMAIN processed_entries}

IsReference(e) ==
    \E r \in DOMAIN entries_HO : e.composition = entries_HO[r].composition

\* C24: with filter_solids the entries handed to the multi-entry generation
\* and the domain construction are the ions, all of them, and the solids
\* that are stable in the phase diagram of the solids and the H and O
\* references: no solid above the hull, every solid that is a corner of it;
\* the references are not among them, nor among the processed or stable
\* entries.
C24_FilterKeepsStableSolids ==
    (pc = "built" /\ ret.op = "__init__") =>
        LET passed == ret.preprocessed
        IN /\ \A i \in DOMAIN InputSolids :
                 /\ Unstable(i) => InputSolids[i] \notin Range(passed)
                 /\ HullCorner(i) => InputSolids[i] \in Range(passed)
           /\ Range(SelectSeq(passed, IsSolid)) \subseteq Range(InputSolids)
           /\ SelectSeq(passed, IsIon) = SelectSeq(unprocessed_entries, IsIon)
           /\ Constituents \subseteq Range(passed)
           /\ ~multielement => processed_entries = passed
           /\ \A e \in Range(passed) \cup Constituents : ~IsReference(e)
           /\ \A v \in Range(stable_domains) : v \in DOMAIN processed_entries

\* C24 witness: a filtered diagram was built from a list with a solid above
\* the hull, a solid at a corner of it and an ion.
C24_Witness ==
    /\ pc = "built" /\ ret.op = "__init__"
    /\ \E i \in DOMAIN InputSolids : Unstable(i)
    /\ \E i \in DOMAIN InputSolids :
          HullCorner(i) /\ InputSolids[i] \in Constituents
    /\ \E i \in DOMAIN ret.preprocessed : IsIon(ret.preprocessed[i])
    /\ Len(ret.preprocessed) < Len(unprocessed_entries)

===========================================================================
